---- MODULE Spec2Model ----
(***************************************************************************)
(* Model of the scheduled-task module of bff_python                        *)
(* (src/modules/backend/tasks/scheduled.py): the hourly_health_check task  *)
(* unit, the SCHEDULED_TASKS registry, register_scheduled_tasks and the    *)
(* retry contract of spec.md section 4.3 that the host runtime enforces on *)
(* the labels the registration hands to the broker; and of its             *)
(* collaborators: the HTTP client of the command line                      *)
(* (src/modules/cli/client.py), the database module                        *)
(* (src/modules/backend/core/database.py), the source routing of log       *)
(* records, as the unit tests of core/logging.py fix it, and the chat of   *)
(* the terminal interface (src/tui.py).                                    *)
(***************************************************************************)
EXTENDS Integers, Sequences, FiniteSets, TLC

VARIABLES
    hPc,        \* position of hourly_health_check: "idle", "gather", "done"
    probe,      \* per probe coroutine: not started, running, returned, raised
    hOutcome,   \* how the last call ended: "none", "returned", "raised"
    result,     \* the dict hourly_health_check returned (NoResult before)
    hLog,       \* log records emitted by the current call
    hOrder,     \* the probes of the current call in the order they completed
    declaration,      \* the items of the SCHEDULED_TASKS literal, in source order
    pc,               \* process position: "import", "loaded", "registered"
    loadIdx,          \* number of items of the literal already inserted
    SCHEDULED_TASKS,  \* the registry dict: insertion-ordered keys and their values
    broker,           \* the broker's task table: task name -> labels and function
    brokerCalls,      \* the task names of the broker.task calls made, in order
    registered,       \* the dict register_scheduled_tasks returned
    regLog,           \* log records emitted by register_scheduled_tasks
    raised,           \* the exception that escaped start-up (NoError if none)
    runs,             \* number of times the process has been started
    brokerBefore,     \* the broker's task table when the process was last restarted
    firing,           \* per task: the state of its current firing
    firings,          \* number of firings triggered so far
    apiClients,       \* the APIClient objects created so far: source and _client
    httpClients,      \* the httpx.AsyncClient objects created so far
    moduleClient,     \* the module-level _client of cli/client.py (0 for None)
    tasks,            \* per asyncio task: the client call it is suspended in
    gets,             \* first and latest get_api_client call since the last close
    engine,           \* _engine of core/database.py (0 for None)
    sessionFactory,   \* _async_session_factory of core/database.py
    created,          \* number of engines and session factories ever created
    dbCalled,         \* whether any function of core/database.py has been called
    dbReturned,       \* how the latest get_engine / get_session_factory call ended
    session,          \* the get_db_session generator in progress
    record,           \* the log record handed to the routing handler
    determined,       \* the source _determine_source gave the record
    messages,         \* AgentTUI._messages: the chat history
    chatLog,          \* the lines the ChatLog widget shows
    chatInput,        \* the value of the chat input widget
    workers,          \* the _handle_user_message workers started so far
    chats,            \* number of new-chat actions so far
    plans_running     \* StatusBar.plans_running

hvars == <<hPc, probe, hOutcome, result, hLog, hOrder>>

rvars == <<declaration, pc, loadIdx, SCHEDULED_TASKS, broker, brokerCalls,
           registered, regLog, raised, runs, brokerBefore>>

fvars == <<firing, firings>>

cvars == <<apiClients, httpClients, moduleClient, tasks, gets>>

dvars == <<engine, sessionFactory, created, dbCalled, dbReturned, session>>

lvars == <<record, determined>>

tvars == <<messages, chatLog, chatInput, workers, chats, plans_running>>

\* The variables of the modules other than tasks/scheduled.py.
xvars == <<cvars, dvars, lvars, tvars>>

vars == <<hPc, probe, hOutcome, result, hLog, hOrder, declaration, pc, loadIdx,
          SCHEDULED_TASKS, broker, brokerCalls, registered, regLog, raised,
          runs, brokerBefore, firing, firings,
          apiClients, httpClients, moduleClient, tasks, gets,
          engine, sessionFactory, created, dbCalled, dbReturned, session,
          record, determined,
          messages, chatLog, chatInput, workers, chats, plans_running>>

(***************************************************************************)
(* hourly_health_check                                                     *)
(***************************************************************************)

\* The two coroutines handed to asyncio.gather, in argument order.
ProbeOrder == <<"database", "redis">>

ProbeNames == {ProbeOrder[i] : i \in 1..Len(ProbeOrder)}

\* Payloads a probe may return: a dict with a status, with a status and a
\* diagnostic, or without any status key.
ProbePayloads ==
    {[status |-> "healthy"], [status |-> "unhealthy"], [status |-> "not_configured"],
     [status |-> "unhealthy", error |-> "connection refused"],
     [message |-> "pong"]}

\* Messages of the exceptions a probe may raise.
ProbeErrors == {"timeout", "connection reset"}

NotStarted == [st |-> "not_started"]

Running == [st |-> "running"]

Returned(payload) == [st |-> "returned", value |-> payload]

Raised(msg) == [st |-> "raised", exc |-> [type |-> "Exception", msg |-> msg]]

\* Mutation: the join only counts the probes that returned.
ProbeDoneReturnedOnlyMut(p) == probe[p].st = "returned"

ProbeDone(p) == probe[p].st \in {"returned", "raised"}

NoResult == [none |-> TRUE]

\* dict.get(key): the value, or None when the key is absent.
DictGet(d, key) == IF key \in DOMAIN d THEN d[key] ELSE "None"

\* str(exception): the exception's message.
StrOfException(e) == e.msg

\* asyncio.gather(..., return_exceptions=True): one entry per awaitable, in
\* argument order; an awaitable that raised contributes its exception object.
GatherReturnExceptions(p) ==
    IF probe[p].st = "raised"
    THEN [isException |-> TRUE, exc |-> probe[p].exc]
    ELSE [isException |-> FALSE, value |-> probe[p].value]

\* Mutation: gather called without return_exceptions.
ReturnExceptionsOffMut == FALSE

\* Line 71: return_exceptions=True.
ReturnExceptions == TRUE

\* Whether the await on gather raises into hourly_health_check: without
\* return_exceptions the first exception is raised out of the await.
GatherRaises ==
    /\ ~ReturnExceptions
    /\ \E p \in ProbeNames : probe[p].st = "raised"

\* Mutation: the substitution drops the message of the exception.
SubstituteErrorNoMsgMut(g) ==
    IF g.isException THEN [status |-> "error"] ELSE g.value

\* Lines 74-77: an exception entry is replaced by a synthetic error outcome.
SubstituteError(g) ==
    IF g.isException
    THEN [status |-> "error", error |-> StrOfException(g.exc)]
    ELSE g.value

\* Line 79: checks = {"database": db_check, "redis": redis_check}.
Checks == [p \in ProbeNames |-> SubstituteError(GatherReturnExceptions(p))]

\* Mutation: only the first check is folded.
AllHealthyFirstOnlyMut(checks) ==
    DictGet(checks[ProbeOrder[1]], "status") \in {"healthy", "not_configured"}

\* Mutation: any() in place of all().
AllHealthyAnyMut(checks) ==
    \E p \in DOMAIN checks : DictGet(checks[p], "status") \in {"healthy", "not_configured"}

\* Lines 80-83: all(c.get("status") in ("healthy", "not_configured") ...).
AllHealthy(checks) ==
    \A p \in DOMAIN checks : DictGet(checks[p], "status") \in {"healthy", "not_configured"}

\* Lines 85-89: the returned dict (checked_at, a wall-clock string, left out).
HealthResult(checks) ==
    [status |-> IF AllHealthy(checks) THEN "healthy" ELSE "degraded",
     checks |-> checks]

\* Mutation: the completion record is always logged with logger.info.
LogLevelAlwaysInfoMut(checks) == "info"

\* Line 91: the severity of the completion record.
LogLevel(checks) == IF AllHealthy(checks) THEN "info" ELSE "warning"

HealthInit ==
    /\ hPc = "idle"
    /\ probe = [p \in ProbeNames |-> NotStarted]
    /\ hOutcome = "none"
    /\ result = NoResult
    /\ hLog = <<>>
    /\ hOrder = <<>>

\* Mutation: the probes are awaited one after the other, so only the first
\* is started before the task suspends.
LaunchedProbesFirstOnlyMut == {ProbeOrder[1]}

\* Lines 68-72: gather schedules every coroutine it is given before the
\* task suspends.
LaunchedProbes == ProbeNames

\* Lines 63-72: the start record, then gather schedules every probe before
\* the task suspends on the join.
HealthStart ==
    /\ hPc = "idle"
    /\ hPc' = "gather"
    /\ probe' = [p \in ProbeNames |-> IF p \in LaunchedProbes THEN Running ELSE NotStarted]
    /\ hOutcome' = "none"
    /\ result' = NoResult
    /\ hLog' = <<[level |-> "info", msg |-> "Starting hourly health check"]>>
    /\ hOrder' = <<>>
    /\ UNCHANGED <<rvars, fvars, xvars>>

\* A running probe returns a payload.
ProbeReturn(p, payload) ==
    /\ hPc = "gather"
    /\ probe[p] = Running
    /\ probe' = [probe EXCEPT ![p] = Returned(payload)]
    /\ hOrder' = Append(hOrder, p)
    /\ UNCHANGED <<hPc, hOutcome, result, hLog, rvars, fvars, xvars>>

\* A running probe raises.
ProbeRaise(p, msg) ==
    /\ hPc = "gather"
    /\ probe[p] = Running
    /\ probe' = [probe EXCEPT ![p] = Raised(msg)]
    /\ hOrder' = Append(hOrder, p)
    /\ UNCHANGED <<hPc, hOutcome, result, hLog, rvars, fvars, xvars>>

\* Lines 68-93: the join resumes once every probe has completed; the rest of
\* the function runs without suspending.
HealthJoin ==
    /\ hPc = "gather"
    /\ \A p \in ProbeNames : ProbeDone(p)
    /\ hPc' = "done"
    /\ IF GatherRaises
       THEN /\ hOutcome' = "raised"
            /\ UNCHANGED <<result, hLog>>
       ELSE /\ hOutcome' = "returned"
            /\ result' = HealthResult(Checks)
            /\ hLog' = Append(hLog, [level |-> LogLevel(Checks),
                                     msg |-> "Hourly health check completed"])
    /\ UNCHANGED <<probe, hOrder, rvars, fvars, xvars>>

\* The next hourly firing calls the function again.
HealthAgain ==
    /\ hPc = "done"
    /\ hPc' = "idle"
    /\ probe' = [p \in ProbeNames |-> NotStarted]
    /\ UNCHANGED <<hOutcome, result, hLog, hOrder, rvars, fvars, xvars>>

HealthNext ==
    \/ HealthStart
    \/ \E p \in ProbeNames, payload \in ProbePayloads : ProbeReturn(p, payload)
    \/ \E p \in ProbeNames, msg \in ProbeErrors : ProbeRaise(p, msg)
    \/ HealthJoin
    \/ HealthAgain

(***************************************************************************)
(* SCHEDULED_TASKS: the registry                                           *)
(***************************************************************************)

\* A Python dict: its keys in insertion order and the value of each key.
EmptyDict == [keys |-> <<>>, vals |-> <<>>]

DictKeys(d) == {d.keys[i] : i \in 1..Len(d.keys)}

\* d[k] = v: a new key is appended, a present key keeps its position and
\* gets the new value; nothing is raised.
DictSet(d, k, v) ==
    IF k \in DictKeys(d)
    THEN [keys |-> d.keys, vals |-> [d.vals EXCEPT ![k] = v]]
    ELSE [keys |-> Append(d.keys, k), vals |-> (k :> v) @@ d.vals]

\* The fields of a cron expression.
Star == [k |-> "any"]

Num(n) == [k |-> "num", v |-> n]

Step(n) == [k |-> "step", v |-> n]

\* "0 2 * * *", "0 * * * *", "0 6 * * 0", "*/15 * * * *" (lines 145-164).
CronDaily == <<Num(0), Num(2), Star, Star, Star>>

CronHourly == <<Num(0), Star, Star, Star, Star>>

CronWeekly == <<Num(0), Num(6), Star, Star, Num(0)>>

CronQuarterHour == <<Step(15), Star, Star, Star, Star>>

\* Lines 143-148.
DailyCleanupConfig ==
    [function |-> "daily_cleanup",
     schedule |-> <<[cron |-> CronDaily, kwargs |-> [older_than_days |-> 30]]>>,
     retry_on_error |-> FALSE,
     description |-> "Clean up expired records daily at 2:00 AM UTC"]

\* Lines 149-154.
HourlyHealthCheckConfig ==
    [function |-> "hourly_health_check",
     schedule |-> <<[cron |-> CronHourly]>>,
     retry_on_error |-> FALSE,
     description |-> "Check external service health every hour"]

\* Lines 155-161, with the declared retry bound as a parameter.
WeeklyReportConfig(max_retries) ==
    [function |-> "weekly_report_generation",
     schedule |-> <<[cron |-> CronWeekly]>>,
     retry_on_error |-> TRUE,
     max_retries |-> max_retries,
     description |-> "Generate weekly summary reports on Sunday"]

\* Lines 162-167.
MetricsAggregationConfig ==
    [function |-> "metrics_aggregation",
     schedule |-> <<[cron |-> CronQuarterHour, kwargs |-> [interval_minutes |-> 15]]>>,
     retry_on_error |-> FALSE,
     description |-> "Aggregate metrics every 15 minutes"]

\* Line 159: max_retries of weekly_report_generation.
WeeklyMaxRetries == 2

\* The key/value items of the SCHEDULED_TASKS literal, in source order.
DeclaredItems(max_retries) ==
    <<[name |-> "daily_cleanup", config |-> DailyCleanupConfig],
      [name |-> "hourly_health_check", config |-> HourlyHealthCheckConfig],
      [name |-> "weekly_report_generation", config |-> WeeklyReportConfig(max_retries)],
      [name |-> "metrics_aggregation", config |-> MetricsAggregationConfig]>>

SourceDeclaration == DeclaredItems(WeeklyMaxRetries)

TaskNames == {SourceDeclaration[i].name : i \in 1..Len(SourceDeclaration)}

\* Largest retry bound tried in place of the declared one.
MaxRetriesDecl == 2

\* Declarations that differ from the source only in the retry bound.
RetryDeclarations == {DeclaredItems(n) : n \in 0..MaxRetriesDecl}

\* A declaration that differs from the source in the arguments bound to
\* daily_cleanup (older_than_days=7, not the default of the parameter) and
\* in its retry policy (one retry), so that bound arguments meet retries.
KwargsDeclarations ==
    {[SourceDeclaration EXCEPT ![1] =
         [name |-> "daily_cleanup",
          config |-> [function |-> "daily_cleanup",
                      schedule |-> <<[cron |-> CronDaily,
                                      kwargs |-> [older_than_days |-> 7]]>>,
                      retry_on_error |-> TRUE,
                      max_retries |-> 1,
                      description |-> DailyCleanupConfig.description]]]}

\* Cron strings that are not valid: "61 * * * *", "0 24 * * *", "0 2 * *",
\* "0 2 * * * *".
MalformedCrons ==
    {<<Num(61), Star, Star, Star, Star>>,
     <<Num(0), Num(24), Star, Star, Star>>,
     <<Num(0), Num(2), Star, Star>>,
     <<Num(0), Num(2), Star, Star, Star, Star>>}

WithCron(item, cron) ==
    [item EXCEPT !.config.schedule = <<[item.config.schedule[1] EXCEPT !.cron = cron]>>]

\* Declarations in which the schedule of one task carries a malformed cron.
MalformedDeclarations ==
    {[SourceDeclaration EXCEPT ![i] = WithCron(SourceDeclaration[i], c)] :
        i \in 1..Len(SourceDeclaration), c \in MalformedCrons}

\* Declarations in which a later item repeats the name of an earlier one
\* with another definition.
DuplicateDeclarations ==
    {Append(SourceDeclaration,
            [name |-> SourceDeclaration[i].name, config |-> SourceDeclaration[j].config]) :
        i \in 1..Len(SourceDeclaration), j \in 1..Len(SourceDeclaration)}
    \ {Append(SourceDeclaration, SourceDeclaration[i]) : i \in 1..Len(SourceDeclaration)}

NoError == [type |-> "none"]

RegistryInit(declarations) ==
    /\ declaration \in declarations
    /\ pc = "import"
    /\ loadIdx = 0
    /\ SCHEDULED_TASKS = EmptyDict
    /\ broker = <<>>
    /\ brokerCalls = <<>>
    /\ registered = EmptyDict
    /\ regLog = <<>>
    /\ raised = NoError
    /\ runs = 1
    /\ brokerBefore = <<>>

\* Lines 142-168: the dict display inserts its items one after the other.
Declare ==
    /\ pc = "import"
    /\ loadIdx < Len(declaration)
    /\ loadIdx' = loadIdx + 1
    /\ SCHEDULED_TASKS' = DictSet(SCHEDULED_TASKS, declaration[loadIdx + 1].name,
                                  declaration[loadIdx + 1].config)
    /\ UNCHANGED <<declaration, pc, broker, brokerCalls, registered, regLog, raised,
                   runs, brokerBefore>>
    /\ UNCHANGED <<hvars, fvars, xvars>>

\* The module has been imported.
Loaded ==
    /\ pc = "import"
    /\ loadIdx = Len(declaration)
    /\ pc' = "loaded"
    /\ UNCHANGED <<declaration, loadIdx, SCHEDULED_TASKS, broker, brokerCalls,
                   registered, regLog, raised, runs, brokerBefore>>
    /\ UNCHANGED <<hvars, fvars, xvars>>

(***************************************************************************)
(* register_scheduled_tasks                                                *)
(***************************************************************************)

\* Mutation: the schedule list of a task the broker already holds is
\* extended instead of replaced.
TaskKwargsAccumulateMut(task_name, config) ==
    [task_name |-> task_name,
     schedule |-> IF task_name \in DOMAIN broker
                  THEN broker[task_name].labels.schedule \o config.schedule
                  ELSE config.schedule,
     retry_on_error |-> config.retry_on_error]

\* Mutation: the max_retries label is never copied.
TaskKwargsNoMaxRetriesMut(task_name, config) ==
    [task_name |-> task_name, schedule |-> config.schedule,
     retry_on_error |-> config.retry_on_error]

\* Mutation: retry switched on for every task, with a fallback retry bound.
TaskKwargsRetryAlwaysMut(task_name, config) ==
    [task_name |-> task_name, schedule |-> config.schedule,
     retry_on_error |-> TRUE,
     max_retries |-> IF "max_retries" \in DOMAIN config THEN config.max_retries ELSE 1]

\* Mutation: only the cron of each schedule entry is copied, the arguments
\* bound to it are dropped.
TaskKwargsCronOnlyMut(task_name, config) ==
    LET schedule == [i \in 1..Len(config.schedule) |-> [cron |-> config.schedule[i].cron]]
    IN IF "max_retries" \in DOMAIN config
       THEN [task_name |-> task_name, schedule |-> schedule,
             retry_on_error |-> config.retry_on_error,
             max_retries |-> config.max_retries]
       ELSE [task_name |-> task_name, schedule |-> schedule,
             retry_on_error |-> config.retry_on_error]

\* Mutation: max_retries is always passed, 0 standing in when the
\* declaration has none.
TaskKwargsDefaultMaxRetriesMut(task_name, config) ==
    [task_name |-> task_name, schedule |-> config.schedule,
     retry_on_error |-> config.retry_on_error,
     max_retries |-> IF "max_retries" \in DOMAIN config THEN config.max_retries ELSE 0]

\* Lines 187-194: the keyword arguments of broker.task.
TaskKwargs(task_name, config) ==
    IF "max_retries" \in DOMAIN config
    THEN [task_name |-> task_name, schedule |-> config.schedule,
          retry_on_error |-> config.retry_on_error,
          max_retries |-> config.max_retries]
    ELSE [task_name |-> task_name, schedule |-> config.schedule,
          retry_on_error |-> config.retry_on_error]

\* broker.task(**task_kwargs)(function): the broker stores the function and
\* its labels under the task name, replacing what the name held before.
BrokerTask(b, task_kwargs, function) ==
    (task_kwargs.task_name :> [labels |-> task_kwargs, function |-> function]) @@ b

\* Mutation: the decorator is applied twice to every function.
RECURSIVE RegisterLoopTwiceMut(_, _)
RegisterLoopTwiceMut(i, st) ==
    IF i > Len(SCHEDULED_TASKS.keys)
    THEN st
    ELSE LET task_name == SCHEDULED_TASKS.keys[i]
             config == SCHEDULED_TASKS.vals[task_name]
             task_kwargs == TaskKwargs(task_name, config)
             b == BrokerTask(st.broker, task_kwargs, config.function)
         IN RegisterLoopTwiceMut(i + 1,
                [broker |-> b,
                 calls |-> st.calls \o <<task_name, task_name>>,
                 registered |-> DictSet(st.registered, task_name, b[task_name])])

\* Lines 186-196: the loop over SCHEDULED_TASKS.items(), from item i on.
RECURSIVE RegisterLoop(_, _)
RegisterLoop(i, st) ==
    IF i > Len(SCHEDULED_TASKS.keys)
    THEN st
    ELSE LET task_name == SCHEDULED_TASKS.keys[i]
             config == SCHEDULED_TASKS.vals[task_name]
             task_kwargs == TaskKwargs(task_name, config)
             b == BrokerTask(st.broker, task_kwargs, config.function)
         IN RegisterLoop(i + 1,
                [broker |-> b,
                 calls |-> Append(st.calls, task_name),
                 registered |-> DictSet(st.registered, task_name, b[task_name])])

\* Mutation: task_kwargs aliases config, so the loop writes task_name into
\* every definition of the registry.
RegistryAfterLoopAliasMut ==
    [keys |-> SCHEDULED_TASKS.keys,
     vals |-> [t \in DOMAIN SCHEDULED_TASKS.vals |->
                  [function |-> SCHEDULED_TASKS.vals[t].function,
                   schedule |-> SCHEDULED_TASKS.vals[t].schedule,
                   retry_on_error |-> SCHEDULED_TASKS.vals[t].retry_on_error,
                   description |-> SCHEDULED_TASKS.vals[t].description,
                   task_name |-> t]]]

\* Lines 186-196: the loop only reads SCHEDULED_TASKS; task_kwargs is a new
\* dict and config is never assigned to.
RegistryAfterLoop == SCHEDULED_TASKS

\* Lines 171-203: the whole function.
RegisterScheduledTasks ==
    /\ pc = "loaded"
    /\ LET st == RegisterLoop(1, [broker |-> broker, calls |-> <<>>,
                                  registered |-> EmptyDict])
       IN /\ broker' = st.broker
          /\ brokerCalls' = st.calls
          /\ registered' = st.registered
          /\ regLog' = Append(regLog,
                [level |-> "info", msg |-> "Scheduled tasks registered",
                 task_count |-> Len(st.registered.keys),
                 tasks |-> st.registered.keys])
    /\ pc' = "registered"
    /\ SCHEDULED_TASKS' = RegistryAfterLoop
    /\ UNCHANGED <<declaration, loadIdx, raised, runs, brokerBefore>>
    /\ UNCHANGED <<hvars, fvars, xvars>>

\* Number of times the process is started against the same broker.
MaxRuns == 2

\* The process is restarted: the module is imported afresh and start-up runs
\* again, while the broker keeps what the previous run registered.
Restart ==
    /\ pc = "registered"
    /\ runs < MaxRuns
    /\ runs' = runs + 1
    /\ brokerBefore' = broker
    /\ pc' = "import"
    /\ loadIdx' = 0
    /\ SCHEDULED_TASKS' = EmptyDict
    /\ brokerCalls' = <<>>
    /\ registered' = EmptyDict
    /\ regLog' = <<>>
    /\ UNCHANGED <<declaration, broker, raised>>
    /\ UNCHANGED <<hvars, fvars, xvars>>

(***************************************************************************)
(* Firings and the retry contract (spec.md section 4.3)                    *)
(***************************************************************************)

\* Number of firings the scheduler triggers in one run of the model.
MaxFirings == 3

\* The retry policy the runtime reads from the labels of a registered task.
RetryEnabled(labels) == labels.retry_on_error

MaxRetriesOf(labels) ==
    IF "max_retries" \in DOMAIN labels THEN labels.max_retries ELSE 0

Terminal == {"Succeeded", "FailedTerminal"}

\* The unit has not been called in this firing.
NotCalled == [called |-> FALSE]

\* A schedule entry that binds no keyword arguments.
NoKwargs == [none |-> TRUE]

\* The keyword arguments a schedule entry binds.
BoundKwargs(entry) ==
    IF "kwargs" \in DOMAIN entry THEN entry.kwargs ELSE NoKwargs

\* The runtime calls the unit with the keyword arguments of the schedule
\* entry that became due, as the labels of the registered task hold them.
UnitCall(labels) == [called |-> TRUE, kwargs |-> BoundKwargs(labels.schedule[1])]

\* Lines 31 and 117: the defaults of the parameters of daily_cleanup and
\* metrics_aggregation.
DefaultOlderThanDays == 30

DefaultIntervalMinutes == 15

\* The value a parameter takes in a call: the keyword argument when it is
\* passed, the default of the parameter otherwise.
Parameter(kwargs, name, default) ==
    IF name \in DOMAIN kwargs THEN kwargs[name] ELSE default

\* Lines 45-53, 85-93, 107-114, 131-139: the dict a unit returns for the
\* arguments it was called with (the wall-clock fields and the empty lists
\* left out): daily_cleanup and metrics_aggregation echo their parameter,
\* hourly_health_check returns the folded status.
UnitResults(t, kwargs) ==
    IF t = "daily_cleanup"
    THEN {[status |-> "completed",
           older_than_days |-> Parameter(kwargs, "older_than_days", DefaultOlderThanDays)]}
    ELSE IF t = "metrics_aggregation"
    THEN {[status |-> "completed",
           interval_minutes |-> Parameter(kwargs, "interval_minutes", DefaultIntervalMinutes)]}
    ELSE IF t = "hourly_health_check"
    THEN {[status |-> "healthy"], [status |-> "degraded"]}
    ELSE {[status |-> "completed"]}

\* state and attempts are the contract's; executions counts the runs of the
\* unit in this firing, last is how the latest run ended, err the message of
\* the latest error, reports the records that report the firing's end, no
\* numbers the firings of the task and prev is the retries its previous
\* firing had used.
\* passed holds the arguments of the latest call of the unit and echo what
\* the latest run that returned gave back.
IdleFiring ==
    [state |-> "Idle", attempts |-> 0, executions |-> 0, last |-> "none",
     err |-> "none", reports |-> <<>>, no |-> 0, prev |-> 0,
     passed |-> NotCalled, echo |-> NoResult]

FiringInit ==
    /\ firing = [t \in TaskNames |-> IdleFiring]
    /\ firings = 0

\* Mutation: a new firing inherits the attempt counter of the previous one.
NewFiringCarryMut(f) ==
    [state |-> "Pending", attempts |-> f.attempts, executions |-> 0,
     last |-> "none", err |-> "none", reports |-> <<>>,
     no |-> f.no + 1, prev |-> f.attempts,
     passed |-> NotCalled, echo |-> NoResult]

\* A new firing: Pending with a fresh attempt counter; prev remembers the
\* retries the previous firing of the task had used.
NewFiring(f) ==
    [state |-> "Pending", attempts |-> 0, executions |-> 0,
     last |-> "none", err |-> "none", reports |-> <<>>,
     no |-> f.no + 1, prev |-> f.attempts,
     passed |-> NotCalled, echo |-> NoResult]

\* A schedule of a registered task becomes due while no firing of the task is
\* in progress.
Fire(t) ==
    /\ pc = "registered"
    /\ t \in DOMAIN broker
    /\ firing[t].state \in Terminal \cup {"Idle"}
    /\ firings < MaxFirings
    /\ firings' = firings + 1
    /\ firing' = [firing EXCEPT ![t] = NewFiring(firing[t])]
    /\ UNCHANGED <<hvars, rvars, xvars>>

\* Mutation: a firing that already ended is delivered to a worker again.
ExecutableStatesRedeliverMut == {"Pending", "Succeeded", "FailedTerminal"}

\* The states from which a worker picks a firing up.
ExecutableStates == {"Pending"}

\* Pending -> Running: the unit is executed once more.
Execute(t) ==
    /\ firing[t].state \in ExecutableStates
    /\ firing' = [firing EXCEPT ![t].state = "Running",
                                ![t].executions = firing[t].executions + 1,
                                ![t].passed = UnitCall(broker[t].labels)]
    /\ UNCHANGED <<firings, hvars, rvars, xvars>>

\* Mutation: a successful attempt is queued again while retries are left.
AfterSuccessRequeueMut(f, labels) ==
    IF RetryEnabled(labels) /\ f.attempts < MaxRetriesOf(labels)
    THEN [f EXCEPT !.state = "Pending", !.attempts = f.attempts + 1]
    ELSE [f EXCEPT !.state = "Succeeded"]

\* Running -> Succeeded.
AfterSuccess(f, labels) == [f EXCEPT !.state = "Succeeded"]

\* Mutation: the units return without logging their completion.
UnitCompletionLogsSilentMut(t) == {<<>>}

\* Lines 45-52, 85-92, 107-113, 131-138: what a unit logs right before it
\* returns: one record carrying its result, at info (daily_cleanup,
\* weekly_report_generation), at debug (metrics_aggregation), at info or
\* warning with the folded status (hourly_health_check).
UnitCompletionLogs(t) ==
    IF t = "hourly_health_check"
    THEN {<<[level |-> "info", task |-> t, status |-> "healthy"]>>,
          <<[level |-> "warning", task |-> t, status |-> "degraded"]>>}
    ELSE IF t = "metrics_aggregation"
    THEN {<<[level |-> "debug", task |-> t, status |-> "completed"]>>}
    ELSE {<<[level |-> "info", task |-> t, status |-> "completed"]>>}

UnitReturns(t) ==
    /\ firing[t].state = "Running"
    /\ \E logs \in UnitCompletionLogs(t), r \in UnitResults(t, firing[t].passed.kwargs) :
          /\ Len(logs) > 0 => logs[1].status = r.status
          /\ firing' = [firing EXCEPT
                           ![t] = [AfterSuccess(firing[t], broker[t].labels)
                                      EXCEPT !.last = "returned",
                                             !.reports = firing[t].reports \o logs,
                                             !.echo = r]]
    /\ UNCHANGED <<firings, hvars, rvars, xvars>>

\* Messages of the errors a unit may raise.
UnitErrors == {"connection lost", "disk full"}

\* Mutation: the error of one unit takes down the worker, failing every
\* firing that is running.
AfterFailureFailsSiblingsMut(fs, t, msg) ==
    [u \in DOMAIN fs |->
        IF u = t \/ fs[u].state = "Running"
        THEN [fs[u] EXCEPT !.state = "Failed", !.last = "raised", !.err = msg]
        ELSE fs[u]]

\* A unit raised: its own firing is Failed, with the error kept.
AfterFailure(fs, t, msg) ==
    [fs EXCEPT ![t].state = "Failed", ![t].last = "raised", ![t].err = msg]

\* Running -> Failed.
UnitRaises(t, msg) ==
    /\ firing[t].state = "Running"
    /\ firing' = AfterFailure(firing, t, msg)
    /\ UNCHANGED <<firings, hvars, rvars, xvars>>

\* Mutation: the retry bound is compared with <=.
MayRetryOffByOneMut(f, labels) ==
    RetryEnabled(labels) /\ f.attempts <= MaxRetriesOf(labels)

\* The guard of the retry edge: retryPolicy.enabled && attempts < maxRetries.
MayRetry(f, labels) ==
    RetryEnabled(labels) /\ f.attempts < MaxRetriesOf(labels)

\* Mutation: the attempt counter is kept per worker, not per firing: a
\* retry counts against every firing in progress.
AfterRetrySharedCounterMut(fs, t) ==
    [u \in DOMAIN fs |->
        IF u = t
        THEN [fs[u] EXCEPT !.state = "Pending", !.attempts = fs[u].attempts + 1]
        ELSE IF fs[u].state \in {"Pending", "Running", "Failed"}
        THEN [fs[u] EXCEPT !.attempts = fs[u].attempts + 1]
        ELSE fs[u]]

\* The retry counts against the firing that failed, and no other.
AfterRetry(fs, t) ==
    [fs EXCEPT ![t].state = "Pending", ![t].attempts = fs[t].attempts + 1]

\* Failed -> Pending (attempts + 1).
Retry(t) ==
    /\ firing[t].state = "Failed"
    /\ MayRetry(firing[t], broker[t].labels)
    /\ firing' = AfterRetry(firing, t)
    /\ UNCHANGED <<firings, hvars, rvars, xvars>>

\* The record that surfaces a terminal failure: error severity, the task
\* name and the error.
FailureReport(t, f) == <<[level |-> "error", task |-> t, error |-> f.err]>>


\* Failed -> FailedTerminal.
Abandon(t) ==
    /\ firing[t].state = "Failed"
    /\ ~MayRetry(firing[t], broker[t].labels)
    /\ firing' = [firing EXCEPT
                     ![t].state = "FailedTerminal",
                     ![t].reports = firing[t].reports \o FailureReport(t, firing[t])]
    /\ UNCHANGED <<firings, hvars, rvars, xvars>>

(***************************************************************************)
(* Validity of a schedule (spec.md sections 3 and 8)                       *)
(***************************************************************************)

\* The legal range of each of the five fields: minute, hour, day of month,
\* month, day of week.
FieldRanges ==
    <<[lo |-> 0, hi |-> 59], [lo |-> 0, hi |-> 23], [lo |-> 1, hi |-> 31],
      [lo |-> 1, hi |-> 12], [lo |-> 0, hi |-> 6]>>

ValidField(f, r) ==
    \/ f.k = "any"
    \/ f.k = "num" /\ f.v \in r.lo..r.hi
    \/ f.k = "step" /\ f.v \in 1..r.hi

ValidCron(cron) ==
    /\ Len(cron) = Len(FieldRanges)
    /\ \A i \in 1..Len(FieldRanges) : ValidField(cron[i], FieldRanges[i])

ValidSchedule(schedule) ==
    \A i \in 1..Len(schedule) : ValidCron(schedule[i].cron)

(***************************************************************************)
(* cli/client.py: APIClient and the module-level client                    *)
(***************************************************************************)

\* Number of APIClient objects and of httpx clients in one run of the model.
MaxApiClients == 3

MaxHttpClients == 2

\* The two asyncio tasks that call into the client concurrently.
Slots == {1, 2}

\* Values passed as source to get_api_client.
Sources == {"cli", "tui"}

\* Line 154: the source of a get_api_client() call without argument.
DefaultSource == "cli"

\* Headers a caller passes to request through **kwargs: none, another
\* header, its own X-Frontend-ID.
RequestHeaders ==
    {{}, {<<"Accept", "application/json">>}, {<<"X-Frontend-ID", "web">>}}

\* Line 53: a new APIClient has no HTTP client yet. closed records that a
\* close() call on the object has completed.
NewApiClient(source) == [source |-> source, http |-> 0, closed |-> FALSE]

\* Lines 58-62: the httpx client is built with the X-Frontend-ID header set
\* to the source of the APIClient. owner is the APIClient that created it,
\* acloses the number of aclose() calls made on it.
NewHttpClient(c) ==
    [owner |-> c, headers |-> {<<"X-Frontend-ID", apiClients[c].source>>},
     is_closed |-> FALSE, acloses |-> 0]

\* httpx sends the client's default headers overridden, name by name, by the
\* headers given with the request (line 103: **kwargs goes to httpx as is).
MergeHeaders(defaults, given) ==
    given \cup {h \in defaults : \A g \in given : g[1] # h[1]}

IdleTask == [op |-> "idle", pc |-> "idle"]

\* The task is suspended at an await inside a call into the client.
Suspended(s) == tasks[s].pc \in {"awaiting", "aclose"}

\* Task s can make a call: it is not inside one, and the second task makes
\* its calls while the first is inside one (a call made while no other
\* is in progress is a call of the first task).
CanCall(s) == ~Suspended(s) /\ (s # 1 => Suspended(1))

NoGet == [called |-> FALSE]

\* Status codes of the responses the server gives.
StatusCodes == {200, 500}

\* What client.request of line 103 raises: an httpx.HTTPError
\* (ConnectError) or another exception (httpx.InvalidURL derives from
\* Exception, not from HTTPError; asyncio.CancelledError is raised at the
\* await when the task is cancelled).
RequestErrors ==
    {[type |-> "ConnectError", isHTTPError |-> TRUE],
     [type |-> "InvalidURL", isHTTPError |-> FALSE],
     [type |-> "CancelledError", isHTTPError |-> FALSE]}

\* Lines 93-100.
ApiRequestRecord == [level |-> "debug", message |-> "API request"]

\* Lines 105-113.
ApiResponseRecord(status) ==
    [level |-> "debug", message |-> "API response", status_code |-> status]

\* Lines 118-126.
ApiRequestFailedRecord(e) ==
    [level |-> "error", message |-> "API request failed", error |-> e.type]

ClientInit ==
    /\ apiClients = <<>>
    /\ httpClients = <<>>
    /\ moduleClient = 0
    /\ tasks = [s \in Slots |-> IdleTask]
    /\ gets = [first |-> NoGet, last |-> NoGet]

\* Mutation: a new APIClient is created whenever the source asked for
\* differs from the source of the current one.
MustCreateOnNewSourceMut(source) ==
    \/ moduleClient = 0
    \/ apiClients[moduleClient].source # source

\* Line 157: if _client is None.
MustCreate(source) == moduleClient = 0

\* Lines 154-159: get_api_client(source).
GetApiClient(source) ==
    /\ MustCreate(source) => Len(apiClients) < MaxApiClients
    /\ LET new == MustCreate(source)
           ret == IF new THEN Len(apiClients) + 1 ELSE moduleClient
           call == [called |-> TRUE, arg |-> source, ret |-> ret]
       IN /\ apiClients' = IF new THEN Append(apiClients, NewApiClient(source))
                                  ELSE apiClients
          /\ moduleClient' = ret
          /\ gets' = [first |-> IF gets.first.called THEN gets.first ELSE call,
                      last |-> call]
    /\ UNCHANGED <<httpClients, tasks>>
    /\ UNCHANGED <<hvars, rvars, fvars, dvars, lvars, tvars>>

\* Mutation: a new HTTP client is created only when there is none.
NeedsHttpClientNoneOnlyMut(c) == apiClients[c].http = 0

\* Line 57: there is no HTTP client, or the current one is closed.
NeedsHttpClient(c) ==
    \/ apiClients[c].http = 0
    \/ httpClients[apiClients[c].http].is_closed

\* Lines 71-103: request up to its await: _get_client (lines 55-63) returns
\* the open HTTP client or creates one, 'API request' is logged, and the
\* request is handed to the HTTP client with the caller's keyword arguments.
Request(s, c, headers) ==
    /\ CanCall(s)
    /\ c \in 1..Len(apiClients)
    /\ NeedsHttpClient(c) => Len(httpClients) < MaxHttpClients
    /\ LET new == NeedsHttpClient(c)
           h == IF new THEN Len(httpClients) + 1 ELSE apiClients[c].http
           clients == IF new
                      THEN Append(httpClients, NewHttpClient(c))
                      ELSE httpClients
       IN /\ httpClients' = clients
          /\ apiClients' = [apiClients EXCEPT ![c].http = h]
          /\ tasks' = [tasks EXCEPT ![s] =
                          [op |-> "request", pc |-> "awaiting", api |-> c, http |-> h,
                           headers |-> MergeHeaders(clients[h].headers, headers),
                           log |-> <<ApiRequestRecord>>]]
    /\ UNCHANGED <<moduleClient, gets>>
    /\ UNCHANGED <<hvars, rvars, fvars, dvars, lvars, tvars>>

\* Lines 103-115: the response arrives, 'API response' is logged with its
\* status code, and the response is returned.
RequestReturns(s, status) ==
    /\ tasks[s].pc = "awaiting"
    /\ tasks' = [tasks EXCEPT ![s] =
                    [op |-> "request", pc |-> "returned",
                     log |-> Append(tasks[s].log, ApiResponseRecord(status)),
                     response |-> status]]
    /\ UNCHANGED <<apiClients, httpClients, moduleClient, gets>>
    /\ UNCHANGED <<hvars, rvars, fvars, dvars, lvars, tvars>>

\* Mutation: every exception is logged as a failed request.
HandledAlwaysMut(e) == TRUE

\* Line 117: except httpx.HTTPError.
Handled(e) == e.isHTTPError

\* Lines 103 and 117-127: client.request raises. An httpx.HTTPError is
\* logged as 'API request failed' and raised again; any other exception
\* leaves the function without passing the handler.
RequestFails(s, e) ==
    /\ tasks[s].pc = "awaiting"
    /\ tasks' = [tasks EXCEPT ![s] =
                    [op |-> "request", pc |-> "raised",
                     log |-> IF Handled(e)
                             THEN Append(tasks[s].log, ApiRequestFailedRecord(e))
                             ELSE tasks[s].log,
                     error |-> e.type]]
    /\ UNCHANGED <<apiClients, httpClients, moduleClient, gets>>
    /\ UNCHANGED <<hvars, rvars, fvars, dvars, lvars, tvars>>

\* Mutation: any HTTP client, open or closed, is closed again.
HasOpenHttpClientAnyMut(c) == apiClients[c].http # 0

\* Line 67: there is an HTTP client and it is not closed.
HasOpenHttpClient(c) ==
    /\ apiClients[c].http # 0
    /\ ~httpClients[apiClients[c].http].is_closed

\* httpx.AsyncClient.aclose as called on line 68: the client is marked
\* closed before the call suspends to shut the connections.
Aclose(h) ==
    [httpClients EXCEPT ![h].is_closed = TRUE, ![h].acloses = @ + 1]

\* Lines 65-68: APIClient.close up to its await. With no open HTTP client
\* the call returns at once and changes nothing.
Close(s, c) ==
    /\ CanCall(s)
    /\ c \in 1..Len(apiClients)
    /\ IF HasOpenHttpClient(c)
       THEN /\ httpClients' = Aclose(apiClients[c].http)
            /\ tasks' = [tasks EXCEPT ![s] = [op |-> "close", pc |-> "aclose", api |-> c]]
            /\ UNCHANGED apiClients
       ELSE /\ tasks' = [tasks EXCEPT ![s] =
                            [op |-> "close", pc |-> "returned", awaited |-> FALSE]]
            /\ apiClients' = [apiClients EXCEPT ![c].closed = TRUE]
            /\ UNCHANGED httpClients
    /\ UNCHANGED <<moduleClient, gets>>
    /\ UNCHANGED <<hvars, rvars, fvars, dvars, lvars, tvars>>

\* Lines 162-167: close_api_client up to the await inside _client.close().
\* With no open HTTP client to close nothing suspends, and the module-level
\* reference is cleared at once; with no client at all nothing is done.
CloseApiClient(s) ==
    /\ CanCall(s)
    /\ IF moduleClient = 0
       THEN /\ tasks' = [tasks EXCEPT ![s] =
                            [op |-> "close_api_client", pc |-> "returned",
                             awaited |-> FALSE]]
            /\ UNCHANGED <<apiClients, httpClients, moduleClient, gets>>
       ELSE IF HasOpenHttpClient(moduleClient)
       THEN /\ httpClients' = Aclose(apiClients[moduleClient].http)
            /\ tasks' = [tasks EXCEPT ![s] = [op |-> "close_api_client", pc |-> "aclose",
                                              api |-> moduleClient]]
            /\ UNCHANGED <<apiClients, moduleClient, gets>>
       ELSE /\ tasks' = [tasks EXCEPT ![s] =
                            [op |-> "close_api_client", pc |-> "returned",
                             awaited |-> FALSE]]
            /\ apiClients' = [apiClients EXCEPT ![moduleClient].closed = TRUE]
            /\ moduleClient' = 0
            /\ gets' = [first |-> NoGet, last |-> NoGet]
            /\ UNCHANGED httpClients
    /\ UNCHANGED <<hvars, rvars, fvars, dvars, lvars, tvars>>

\* Lines 68-69 and 166-167: aclose returns; close clears self._client and,
\* within close_api_client, the module-level reference is cleared next.
AcloseReturns(s) ==
    /\ tasks[s].pc = "aclose"
    /\ apiClients' = [apiClients EXCEPT ![tasks[s].api].http = 0,
                                         ![tasks[s].api].closed = TRUE]
    /\ IF tasks[s].op = "close_api_client"
       THEN /\ moduleClient' = 0
            /\ gets' = [first |-> NoGet, last |-> NoGet]
       ELSE UNCHANGED <<moduleClient, gets>>
    /\ tasks' = [tasks EXCEPT ![s] =
                    [op |-> tasks[s].op, pc |-> "returned", awaited |-> TRUE]]
    /\ UNCHANGED httpClients
    /\ UNCHANGED <<hvars, rvars, fvars, dvars, lvars, tvars>>

\* Line 68: the task is cancelled while aclose is suspended: CancelledError
\* leaves close, and close_api_client, before the reference is cleared.
AcloseCancelled(s) ==
    /\ tasks[s].pc = "aclose"
    /\ tasks' = [tasks EXCEPT ![s] =
                    [op |-> tasks[s].op, pc |-> "raised", error |-> "CancelledError"]]
    /\ UNCHANGED <<apiClients, httpClients, moduleClient, gets>>
    /\ UNCHANGED <<hvars, rvars, fvars, dvars, lvars, tvars>>

\* The calls that the tasks in slots make, get_api_client being given the
\* sources in sources and request the headers in given.
ClientNext(slots, sources, given) ==
    \/ \E source \in sources : GetApiClient(source)
    \/ \E s \in slots, c \in 1..MaxApiClients, headers \in given :
          Request(s, c, headers)
    \/ \E s \in slots, status \in StatusCodes : RequestReturns(s, status)
    \/ \E s \in slots, e \in RequestErrors : RequestFails(s, e)
    \/ \E s \in slots, c \in 1..MaxApiClients : Close(s, c)
    \/ \E s \in slots : CloseApiClient(s)
    \/ \E s \in slots : AcloseReturns(s)
    \/ \E s \in slots : AcloseCancelled(s)

(***************************************************************************)
(* core/database.py: the lazy engine, the session factory, get_db_session  *)
(***************************************************************************)

NoFactory == [made |-> FALSE]

NoReturn == [fn |-> "none"]

NoSession == [pc |-> "idle"]

\* What the consumer of a yielded session may raise into the generator, what
\* commit may raise and what rollback may raise. isException tells the
\* subclasses of Exception from the other subclasses of BaseException.
ConsumerErrors ==
    {[type |-> "ValueError", isException |-> TRUE],
     [type |-> "HTTPException", isException |-> TRUE],
     [type |-> "CancelledError", isException |-> FALSE]}

CommitErrors ==
    {[type |-> "IntegrityError", isException |-> TRUE],
     [type |-> "CancelledError", isException |-> FALSE]}

RollbackErrors == {[type |-> "InterfaceError", isException |-> TRUE]}

NoException == [type |-> "none"]

DatabaseInit ==
    /\ engine = 0
    /\ sessionFactory = NoFactory
    /\ created = [engines |-> 0, factories |-> 0]
    /\ dbCalled = FALSE
    /\ dbReturned = NoReturn
    /\ session = NoSession

\* Mutation: the engine is created on every call.
EngineMissingAlwaysMut == TRUE

\* Line 51: if _engine is None.
EngineMissing == engine = 0

\* Line 64: if _async_session_factory is None.
FactoryMissing == sessionFactory = NoFactory

\* Lines 40-53 as a function of the state: the state after get_engine when
\* _create_engine succeeds. A new engine is a new object.
AfterGetEngine(st) ==
    IF EngineMissing
    THEN [st EXCEPT !.engine = st.created.engines + 1,
                    !.created.engines = st.created.engines + 1]
    ELSE st

\* Lines 56-70: the state after get_session_factory when nothing raises: the
\* factory is made over what get_engine() returns.
AfterGetSessionFactory(st) ==
    IF FactoryMissing
    THEN LET e == AfterGetEngine(st)
         IN [e EXCEPT !.factory = [made |-> TRUE, id |-> e.created.factories + 1,
                                   bind |-> e.engine],
                      !.created.factories = e.created.factories + 1]
    ELSE st

DbState == [engine |-> engine, factory |-> sessionFactory, created |-> created]

\* Lines 40-53: get_engine() returns the engine.
GetEngine ==
    /\ LET st == AfterGetEngine(DbState)
       IN /\ engine' = st.engine
          /\ created' = st.created
          /\ dbReturned' = [fn |-> "get_engine", ok |-> TRUE, value |-> st.engine]
    /\ dbCalled' = TRUE
    /\ UNCHANGED <<sessionFactory, session>>
    /\ UNCHANGED <<hvars, rvars, fvars, cvars, lvars, tvars>>

\* Lines 22-37, 47-48: _create_engine raises (the configuration is invalid);
\* nothing is stored.
GetEngineRaises ==
    /\ EngineMissing
    /\ dbReturned' = [fn |-> "get_engine", ok |-> FALSE]
    /\ dbCalled' = TRUE
    /\ UNCHANGED <<engine, sessionFactory, created, session>>
    /\ UNCHANGED <<hvars, rvars, fvars, cvars, lvars, tvars>>

\* Lines 56-70: get_session_factory() returns the factory.
GetSessionFactory ==
    /\ LET st == AfterGetSessionFactory(DbState)
       IN /\ engine' = st.engine
          /\ sessionFactory' = st.factory
          /\ created' = st.created
          /\ dbReturned' = [fn |-> "get_session_factory", ok |-> TRUE, value |-> st.factory]
    /\ dbCalled' = TRUE
    /\ UNCHANGED session
    /\ UNCHANGED <<hvars, rvars, fvars, cvars, lvars, tvars>>

\* Lines 64-66: get_engine() raises inside get_session_factory; no factory
\* is stored.
GetSessionFactoryRaises ==
    /\ FactoryMissing
    /\ EngineMissing
    /\ dbReturned' = [fn |-> "get_session_factory", ok |-> FALSE]
    /\ dbCalled' = TRUE
    /\ UNCHANGED <<engine, sessionFactory, created, session>>
    /\ UNCHANGED <<hvars, rvars, fvars, cvars, lvars, tvars>>

\* Lines 82-85: get_db_session up to its yield: the factory is fetched, a
\* session is made from it and entered, and the session is yielded.
SessionYielded ==
    /\ session = NoSession
    /\ LET st == AfterGetSessionFactory(DbState)
       IN /\ engine' = st.engine
          /\ sessionFactory' = st.factory
          /\ created' = st.created
          /\ session' = [pc |-> "yielded", factory |-> st.factory, calls |-> <<>>,
                         consumer |-> NoException, commit |-> NoException,
                         rollback |-> NoException, pending |-> NoException,
                         propagated |-> NoException]
    /\ dbCalled' = TRUE
    /\ UNCHANGED dbReturned
    /\ UNCHANGED <<hvars, rvars, fvars, cvars, lvars, tvars>>

\* Line 86: the consumer is done with the session and resumes the
\* generator, which awaits session.commit().
ConsumerFinishes ==
    /\ session.pc = "yielded"
    /\ session' = [session EXCEPT !.pc = "commit", !.calls = Append(session.calls, "commit")]
    /\ UNCHANGED <<engine, sessionFactory, created, dbCalled, dbReturned>>
    /\ UNCHANGED <<hvars, rvars, fvars, cvars, lvars, tvars>>

\* Mutation: the except clause catches nothing, so rollback is never called.
CaughtNoneMut(exc) == FALSE

\* Line 87: except Exception.
Caught(exc) == exc.isException

\* Lines 87-89 and the exit of the async with: an exception raised inside
\* the try is caught when it is an Exception, and then session.rollback()
\* is awaited; any other exception leaves through the async with at once.
AfterRaise(ses, exc) ==
    IF Caught(exc)
    THEN [ses EXCEPT !.pc = "rollback", !.calls = Append(ses.calls, "rollback"),
                     !.pending = exc]
    ELSE [ses EXCEPT !.pc = "exit", !.pending = exc]

\* Line 85: the consumer raises, and the exception is thrown into the
\* generator at the yield.
ConsumerRaises(exc) ==
    /\ session.pc = "yielded"
    /\ session' = AfterRaise([session EXCEPT !.consumer = exc], exc)
    /\ UNCHANGED <<engine, sessionFactory, created, dbCalled, dbReturned>>
    /\ UNCHANGED <<hvars, rvars, fvars, cvars, lvars, tvars>>

\* Line 86: commit returns, and the try block is left.
CommitReturns ==
    /\ session.pc = "commit"
    /\ session' = [session EXCEPT !.pc = "exit"]
    /\ UNCHANGED <<engine, sessionFactory, created, dbCalled, dbReturned>>
    /\ UNCHANGED <<hvars, rvars, fvars, cvars, lvars, tvars>>

\* Line 86: commit raises.
CommitRaises(exc) ==
    /\ session.pc = "commit"
    /\ session' = AfterRaise([session EXCEPT !.commit = exc], exc)
    /\ UNCHANGED <<engine, sessionFactory, created, dbCalled, dbReturned>>
    /\ UNCHANGED <<hvars, rvars, fvars, cvars, lvars, tvars>>

\* Lines 88-89: rollback returns and the bare raise raises the caught
\* exception again.
RollbackReturns ==
    /\ session.pc = "rollback"
    /\ session' = [session EXCEPT !.pc = "exit"]
    /\ UNCHANGED <<engine, sessionFactory, created, dbCalled, dbReturned>>
    /\ UNCHANGED <<hvars, rvars, fvars, cvars, lvars, tvars>>

\* Line 88: rollback raises inside the except block: its exception takes the
\* place of the caught one, and line 89 is not reached.
RollbackRaises(exc) ==
    /\ session.pc = "rollback"
    /\ session' = [session EXCEPT !.pc = "exit", !.rollback = exc, !.pending = exc]
    /\ UNCHANGED <<engine, sessionFactory, created, dbCalled, dbReturned>>
    /\ UNCHANGED <<hvars, rvars, fvars, cvars, lvars, tvars>>

\* Line 83: the async with closes the session on the way out, and what is
\* pending goes on to the caller.
SessionExit ==
    /\ session.pc = "exit"
    /\ session' = [session EXCEPT !.pc = "closed", !.calls = Append(session.calls, "close"),
                                  !.propagated = session.pending]
    /\ UNCHANGED <<engine, sessionFactory, created, dbCalled, dbReturned>>
    /\ UNCHANGED <<hvars, rvars, fvars, cvars, lvars, tvars>>

\* The generator is finished; the next request starts another.
SessionDone ==
    /\ session.pc = "closed"
    /\ session' = NoSession
    /\ UNCHANGED <<engine, sessionFactory, created, dbCalled, dbReturned>>
    /\ UNCHANGED <<hvars, rvars, fvars, cvars, lvars, tvars>>

DatabaseNext ==
    \/ GetEngine
    \/ GetEngineRaises
    \/ GetSessionFactory
    \/ GetSessionFactoryRaises
    \/ SessionYielded
    \/ ConsumerFinishes
    \/ \E exc \in ConsumerErrors : ConsumerRaises(exc)
    \/ CommitReturns
    \/ \E exc \in CommitErrors : CommitRaises(exc)
    \/ RollbackReturns
    \/ \E exc \in RollbackErrors : RollbackRaises(exc)
    \/ SessionExit
    \/ SessionDone

(***************************************************************************)
(* core/logging.py: the source of a log record (from the unit tests)       *)
(***************************************************************************)

\* test_logging.py, line 22: the closed set of log sources.
LOG_SOURCES ==
    {"web", "cli", "mobile", "telegram", "api", "database", "tasks", "internal",
     "unknown"}

\* The attribute is not set on the record.
Unset == "None"

\* Logger names, as the components between the dots: the names the tests
\* use, and one that holds the names of two sources.
LoggerNames ==
    {<<"test">>,
     <<"some", "random", "module">>,
     <<"modules", "backend", "tasks", "example">>,
     <<"modules", "backend", "core", "database">>,
     <<"modules", "telegram", "bot">>,
     <<"modules", "backend", "tasks", "database">>}

\* Values of record.source and of record.frontend: unset, members of
\* LOG_SOURCES, and strings outside it.
SourceValues == {Unset, "web", "api", "unknown", "invalid_source"}

FrontendValues == {Unset, "cli", "web", "tui"}

LogRecords ==
    [name : LoggerNames, source : SourceValues, frontend : FrontendValues]

\* The sources a logger name stands for: tasks, database, telegram. Which
\* one a name that holds two of them gets is not fixed by the tests.
InferredSources(name) ==
    {name[i] : i \in 1..Len(name)} \cap {"tasks", "database", "telegram"}

\* Mutation: the frontend field is looked at before the source field.
DetermineSourceFrontendFirstMut(r) ==
    IF r.frontend \in LOG_SOURCES THEN {r.frontend}
    ELSE IF r.source \in LOG_SOURCES THEN {r.source}
    ELSE IF InferredSources(r.name) # {} THEN InferredSources(r.name)
    ELSE {"unknown"}

\* Mutation: an explicit source is taken as it is.
DetermineSourceUnvalidatedMut(r) ==
    IF r.source # Unset THEN {r.source}
    ELSE IF r.frontend \in LOG_SOURCES THEN {r.frontend}
    ELSE IF InferredSources(r.name) # {} THEN InferredSources(r.name)
    ELSE {"unknown"}

\* SourceRoutingHandler._determine_source(record): the sources it may
\* return (test_logging.py, lines 155-327).
DetermineSource(r) ==
    IF r.source \in LOG_SOURCES THEN {r.source}
    ELSE IF r.frontend \in LOG_SOURCES THEN {r.frontend}
    ELSE IF InferredSources(r.name) # {} THEN InferredSources(r.name)
    ELSE {"unknown"}

NotDetermined == "<not determined>"

LoggingInit(records) ==
    /\ record \in records
    /\ determined = NotDetermined

\* The handler determines the source of the record.
DetermineSourceOfRecord ==
    /\ determined = NotDetermined
    /\ determined' \in DetermineSource(record)
    /\ UNCHANGED record
    /\ UNCHANGED <<hvars, rvars, fvars, cvars, dvars, tvars>>

\* The next record reaches the handler.
NextRecord ==
    /\ determined # NotDetermined
    /\ record' \in LogRecords
    /\ determined' = NotDetermined
    /\ UNCHANGED <<hvars, rvars, fvars, cvars, dvars, tvars>>

LoggingNext ==
    \/ DetermineSourceOfRecord
    \/ NextRecord

\* The record the other specifications start with.
PlainRecord == [name |-> <<"test">>, source |-> Unset, frontend |-> Unset]

(***************************************************************************)
(* tui.py: the chat history, the chat log and the status bar of AgentTUI   *)
(***************************************************************************)

\* Number of chat submissions that start a worker, of new-chat actions and
\* of lines in the chat log (which kill-plan actions fill without end), and
\* the largest value plans_running is given at the start.
MaxSubmits == 1

MaxChats == 1

MaxLines == 5

MaxPlans == 2

\* Values of the chat input when Enter is pressed, as sequences of
\* characters.
InputValues == {<<>>, <<" ">>, <<"h">>, <<" ", "h", " ">>}

RECURSIVE LStrip(_)
LStrip(value) ==
    IF value # <<>> /\ Head(value) = " " THEN LStrip(Tail(value)) ELSE value

RECURSIVE RStrip(_)
RStrip(value) ==
    IF value # <<>> /\ value[Len(value)] = " "
    THEN RStrip(SubSeq(value, 1, Len(value) - 1))
    ELSE value

\* str.strip() of lines 220 and 222.
Strip(value) == RStrip(LStrip(value))

\* A line of the chat log: what it shows and the submission it belongs to
\* (0 for the lines of the application itself).
Line(kind, w) == [kind |-> kind, of |-> w]

\* Lines 195-200: the welcome text on_mount writes.
WelcomeLine == Line("welcome", 0)

\* Line 210.
NewChatLine == Line("new_chat", 0)

\* Line 214.
KillLine == Line("plan_killed", 0)

\* AgentMessage(role="user", content=user_input), line 232. w is the
\* submission and chat the number of new-chat actions before it was sent.
UserMessage(w, content, chat) ==
    [role |-> "user", content |-> content, agent_name |-> "None",
     of |-> w, chat |-> chat]

\* AgentMessage(role="assistant", content=output, agent_name=agent_name),
\* lines 277-281.
AssistantMessage(w, body, chat) ==
    [role |-> "assistant", content |-> body.output, agent_name |-> body.agent_name,
     of |-> w, chat |-> chat]

\* Bodies of a response: a JSON document of the expected shape, with or
\* without advice, and a body that is not JSON.
NotJson == [json |-> FALSE]

JsonBodies ==
    {[json |-> TRUE, agent_name |-> "agent", output |-> "No response", advice |-> FALSE],
     [json |-> TRUE, agent_name |-> "coder", output |-> "done", advice |-> TRUE]}

Responses ==
    {[status_code |-> s, body |-> b] : s \in StatusCodes, b \in JsonBodies \cup {NotJson}}

\* What the request of lines 241-246 raises: httpx.ConnectError, another
\* Exception (httpx.ReadTimeout), or asyncio.CancelledError when the worker
\* is cancelled while it waits, which is not an Exception.
ChatErrors ==
    {[type |-> "ConnectError", isException |-> TRUE],
     [type |-> "ReadTimeout", isException |-> TRUE],
     [type |-> "CancelledError", isException |-> FALSE]}

\* A worker of _handle_user_message that on_chat_submit has started and
\* that has not run yet.
NewWorker(content) == [pc |-> "scheduled", content |-> content]

TuiInit(plans) ==
    /\ messages = <<>>
    /\ chatLog = <<WelcomeLine>>
    /\ chatInput = <<>>
    /\ workers = <<>>
    /\ chats = 0
    /\ plans_running \in plans

\* Lines 218-224: on_chat_submit. A blank value is ignored; otherwise the
\* input is emptied and a worker is started with the stripped value.
OnChatSubmit(value) ==
    /\ IF Strip(value) = <<>>
       THEN /\ chatInput' = value
            /\ UNCHANGED workers
       ELSE /\ Len(workers) < MaxSubmits
            /\ chatInput' = <<>>
            /\ workers' = Append(workers, NewWorker(Strip(value)))
    /\ UNCHANGED <<messages, chatLog, chats, plans_running>>
    /\ UNCHANGED <<hvars, rvars, fvars, cvars, dvars, lvars>>

\* Lines 226-246: the worker runs up to the await of client.post: the
\* user's line is written, the message is appended to the history and the
\* request is sent.
HandleUserMessage(w) ==
    /\ w \in 1..Len(workers)
    /\ workers[w].pc = "scheduled"
    /\ chatLog' = chatLog \o <<Line("you", w), Line("sending", w)>>
    /\ messages' = Append(messages, UserMessage(w, workers[w].content, chats))
    /\ workers' = [workers EXCEPT ![w] =
                      [pc |-> "awaiting", content |-> workers[w].content,
                       chat |-> chats]]
    /\ UNCHANGED <<chatInput, chats, plans_running>>
    /\ UNCHANGED <<hvars, rvars, fvars, cvars, dvars, lvars>>

\* Lines 261-275: the agent's line, and the advice line when there is one.
AgentLines(w, body) ==
    <<Line("agent", w)>> \o (IF body.advice THEN <<Line("advice", w)>> ELSE <<>>)

\* Lines 248-285: a response has arrived. With status 200 the agent's
\* output is written and appended to the history as an assistant message;
\* with another status the error of the body is written. A body that is
\* not JSON makes response.json() raise, which line 290 catches.
AgentResponds(w, response) ==
    /\ w \in 1..Len(workers)
    /\ workers[w].pc = "awaiting"
    /\ IF ~response.body.json
       THEN /\ chatLog' = Append(chatLog, Line("error", w))
            /\ UNCHANGED messages
       ELSE IF response.status_code = 200
       THEN /\ chatLog' = chatLog \o AgentLines(w, response.body)
            /\ messages' = Append(messages,
                                  AssistantMessage(w, response.body, workers[w].chat))
       ELSE /\ chatLog' = Append(chatLog, Line("agent_error", w))
            /\ UNCHANGED messages
    /\ workers' = [workers EXCEPT ![w] =
                      [pc |-> "done", content |-> workers[w].content,
                       chat |-> workers[w].chat, outcome |-> "returned",
                       status_code |-> response.status_code, error |-> "None"]]
    /\ UNCHANGED <<chatInput, chats, plans_running>>
    /\ UNCHANGED <<hvars, rvars, fvars, cvars, dvars, lvars>>

\* Mutation: nothing is caught.
ChatCaughtNoneMut(e) == FALSE

\* Lines 286 and 290: except httpx.ConnectError, except Exception.
ChatCaught(e) == e.isException

\* Lines 286-291: the request raises. A ConnectError shows that the
\* backend is not reachable, any other Exception shows its text; what is
\* not an Exception leaves _send_to_agent and the worker.
AgentRequestRaises(w, e) ==
    /\ w \in 1..Len(workers)
    /\ workers[w].pc = "awaiting"
    /\ chatLog' = IF ~ChatCaught(e) THEN chatLog
                  ELSE IF e.type = "ConnectError"
                       THEN Append(chatLog, Line("unreachable", w))
                       ELSE Append(chatLog, Line("error", w))
    /\ workers' = [workers EXCEPT ![w] =
                      [pc |-> "done", content |-> workers[w].content,
                       chat |-> workers[w].chat,
                       outcome |-> IF ChatCaught(e) THEN "returned" ELSE "raised",
                       status_code |-> 0, error |-> e.type]]
    /\ UNCHANGED <<messages, chatInput, chats, plans_running>>
    /\ UNCHANGED <<hvars, rvars, fvars, cvars, dvars, lvars>>

\* Lines 206-210: action_new_chat.
ActionNewChat ==
    /\ chats < MaxChats
    /\ chatLog' = <<NewChatLine>>
    /\ messages' = <<>>
    /\ chats' = chats + 1
    /\ UNCHANGED <<chatInput, workers, plans_running>>
    /\ UNCHANGED <<hvars, rvars, fvars, cvars, dvars, lvars>>

\* Mutation: the counter is decremented without a floor.
KillDecrementNoFloorMut(n) == n - 1

\* Line 216: max(0, status.plans_running - 1).
KillDecrement(n) == IF n - 1 > 0 THEN n - 1 ELSE 0

\* Lines 212-216: action_kill_plan.
ActionKillPlan ==
    /\ Len(chatLog) < MaxLines
    /\ chatLog' = Append(chatLog, KillLine)
    /\ plans_running' = KillDecrement(plans_running)
    /\ UNCHANGED <<messages, chatInput, workers, chats>>
    /\ UNCHANGED <<hvars, rvars, fvars, cvars, dvars, lvars>>

TuiNext ==
    \/ \E value \in InputValues : OnChatSubmit(value)
    \/ \E w \in 1..MaxSubmits : HandleUserMessage(w)
    \/ \E w \in 1..MaxSubmits, response \in Responses : AgentResponds(w, response)
    \/ \E w \in 1..MaxSubmits, e \in ChatErrors : AgentRequestRaises(w, e)
    \/ ActionNewChat
    \/ ActionKillPlan

(***************************************************************************)
(* Properties                                                              *)
(***************************************************************************)

\* What a probe did counts as a pass: it returned a payload whose status is
\* healthy or not_configured.
ProbePassed(p) ==
    /\ probe[p].st = "returned"
    /\ "status" \in DOMAIN probe[p].value
    /\ probe[p].value.status \in {"healthy", "not_configured"}

\* C1: whatever the two probes do (return a status, return a payload with no
\* status, raise), the folded status of the result is healthy exactly when
\* every probe returned healthy or not_configured, and degraded otherwise.
C1_FoldedStatus ==
    hPc = "done" =>
        /\ hOutcome = "returned"
        /\ result.status \in {"healthy", "degraded"}
        /\ result.status = "healthy" <=> \A p \in ProbeNames : ProbePassed(p)

C1_Witness ==
    /\ hPc = "done"
    /\ \A p \in ProbeNames : probe[p] = Returned([status |-> "not_configured"])
    /\ result.status = "healthy"

\* C2: when a probe raises, hourly_health_check still returns; the outcome of
\* each raising probe is {status: error, error: <message>}, the folded status
\* is degraded, each probe that returned appears in checks with exactly the
\* payload it returned, and nothing is raised to the caller.
C2_ProbeFailureIsolated ==
    (hPc = "done" /\ \E p \in ProbeNames : probe[p].st = "raised") =>
        /\ hOutcome = "returned"
        /\ result.status = "degraded"
        /\ \A p \in ProbeNames :
              IF probe[p].st = "raised"
              THEN result.checks[p] = [status |-> "error", error |-> probe[p].exc.msg]
              ELSE result.checks[p] = probe[p].value

C2_Witness ==
    /\ hPc = "done"
    /\ probe["database"] = Raised("timeout")
    /\ probe["redis"] = Returned([status |-> "healthy"])
    /\ hOutcome = "returned"
    /\ result.checks["redis"] = [status |-> "healthy"]

\* The registry holds a task whose schedule is not valid.
SomeScheduleInvalid ==
    \E t \in DictKeys(SCHEDULED_TASKS) : ~ValidSchedule(SCHEDULED_TASKS.vals[t].schedule)

\* C3: registration is all-or-nothing: when a task of the registry has an
\* invalid schedule, register_scheduled_tasks has failed once it is over and
\* the broker holds none of the tasks.
C3_AllOrNothing ==
    (pc = "registered" /\ SomeScheduleInvalid) =>
        /\ raised.type = "InvalidScheduleError"
        /\ DOMAIN broker = {}

\* The declared retry policy of a task of the registry.
DeclaredRetryOff(t) == ~SCHEDULED_TASKS.vals[t].retry_on_error

DeclaredMaxRetries(t) == SCHEDULED_TASKS.vals[t].max_retries

\* C4: a firing of a task declared with retry_on_error False runs its unit at
\* most once and never counts an attempt; when the run fails the firing is
\* FailedTerminal after exactly one execution, never Pending again.
C4_NoRetryWhenDisabled ==
    \A t \in DictKeys(SCHEDULED_TASKS) :
        DeclaredRetryOff(t) =>
            /\ firing[t].executions <= 1
            /\ firing[t].attempts = 0
            /\ firing[t].state = "Pending" => firing[t].executions = 0
            /\ firing[t].state = "FailedTerminal" => firing[t].executions = 1

C4_Witness ==
    /\ pc = "registered"
    /\ DeclaredRetryOff("daily_cleanup")
    /\ firing["daily_cleanup"].state = "FailedTerminal"
    /\ firing["daily_cleanup"].executions = 1

\* C5: a firing of a task declared with retry_on_error True and max_retries N
\* never runs its unit more than N + 1 times, and it is FailedTerminal only
\* after exactly N + 1 executions (the first run and N retries).
C5_RetryBudget ==
    \A t \in DictKeys(SCHEDULED_TASKS) :
        ~DeclaredRetryOff(t) =>
            /\ firing[t].executions <= DeclaredMaxRetries(t) + 1
            /\ firing[t].state = "FailedTerminal" =>
                  /\ firing[t].executions = DeclaredMaxRetries(t) + 1
                  /\ firing[t].attempts = DeclaredMaxRetries(t)

C5_Witness ==
    /\ pc = "registered"
    /\ DeclaredMaxRetries("weekly_report_generation") = WeeklyMaxRetries
    /\ firing["weekly_report_generation"].state = "FailedTerminal"
    /\ firing["weekly_report_generation"].executions = WeeklyMaxRetries + 1

\* C6: a firing stops at its first successful run: as soon as a run of the
\* unit has returned the firing is Succeeded, with as many executions as the
\* attempt that succeeded and none after it, whatever is left of the budget.
C6_StopsAtFirstSuccess ==
    \A t \in TaskNames :
        firing[t].last = "returned" =>
            /\ firing[t].state = "Succeeded"
            /\ firing[t].executions = firing[t].attempts + 1

C6_Witness ==
    /\ pc = "registered"
    /\ DeclaredMaxRetries("weekly_report_generation") = WeeklyMaxRetries
    /\ firing["weekly_report_generation"].state = "Succeeded"
    /\ firing["weekly_report_generation"].executions = 2
    /\ firing["weekly_report_generation"].attempts = 1

\* C7: every new firing of a task starts Pending with attempts = 0 and no
\* execution, whatever the previous firing of the task had used.
C7_AttemptsResetPerFiring ==
    [][\A t \in TaskNames :
          firing'[t].no # firing[t].no =>
              /\ firing'[t].state = "Pending"
              /\ firing'[t].attempts = 0
              /\ firing'[t].executions = 0]_vars

\* A second firing that again used the whole budget after the first one had.
C7_Witness ==
    /\ pc = "registered"
    /\ DeclaredMaxRetries("weekly_report_generation") = WeeklyMaxRetries
    /\ firing["weekly_report_generation"].no = 2
    /\ firing["weekly_report_generation"].prev = WeeklyMaxRetries
    /\ firing["weekly_report_generation"].state = "FailedTerminal"
    /\ firing["weekly_report_generation"].executions = WeeklyMaxRetries + 1

\* C8: Succeeded and FailedTerminal are terminal: no step changes the state,
\* the attempt counter or the executions of a firing that is in one of them.
C8_TerminalStates ==
    [][\A t \in TaskNames :
          (firing[t].state \in Terminal /\ firing'[t].no = firing[t].no) =>
              firing'[t] = firing[t]]_vars

\* One firing has ended while another task's firing still moves.
C8_Witness ==
    /\ pc = "registered"
    /\ firing["weekly_report_generation"].state = "FailedTerminal"
    /\ firing["daily_cleanup"].state = "Succeeded"
    /\ firing["metrics_aggregation"].state = "Running"

\* Item i of the declaration repeats the name of an earlier item.
RepeatsName(i) == \E j \in 1..(i - 1) : declaration[j].name = declaration[i].name

FirstWithName(name) ==
    CHOOSE j \in 1..Len(declaration) :
        /\ declaration[j].name = name
        /\ \A k \in 1..(j - 1) : declaration[k].name # name

\* C9: registering a definition under a name the registry already holds
\* fails with DuplicateTaskError and leaves the registry as it was, so no two
\* definitions of the registry share a name.
C9_DuplicateRejected ==
    /\ \A i, j \in 1..Len(SCHEDULED_TASKS.keys) :
          SCHEDULED_TASKS.keys[i] = SCHEDULED_TASKS.keys[j] => i = j
    /\ \A i \in 1..loadIdx :
          RepeatsName(i) =>
              /\ raised.type = "DuplicateTaskError"
              /\ SCHEDULED_TASKS.vals[declaration[i].name]
                    = declaration[FirstWithName(declaration[i].name)].config

\* C10: registration fails with InvalidScheduleError naming the task for
\* every task whose cron is malformed, and accepts every valid schedule.
C10_MalformedCronRejected ==
    pc = "registered" =>
        /\ \A t \in DictKeys(SCHEDULED_TASKS) :
              ~ValidSchedule(SCHEDULED_TASKS.vals[t].schedule) =>
                  /\ raised.type = "InvalidScheduleError"
                  /\ raised.task = t
                  /\ t \notin DOMAIN broker
        /\ ~SomeScheduleInvalid =>
              /\ raised = NoError
              /\ DOMAIN broker = DictKeys(SCHEDULED_TASKS)

\* C11: a registration that succeeded made exactly one broker.task call per
\* definition of the registry, in the registry's order, and the record it
\* logged and the dict it returned count and list exactly the registry's
\* task names in that order.
C11_OneCallPerTaskAndReport ==
    (pc = "registered" /\ raised = NoError) =>
        /\ brokerCalls = SCHEDULED_TASKS.keys
        /\ registered.keys = SCHEDULED_TASKS.keys
        /\ Len(regLog) = 1
        /\ regLog[1].task_count = Len(SCHEDULED_TASKS.keys)
        /\ regLog[1].tasks = SCHEDULED_TASKS.keys
        /\ Len(SCHEDULED_TASKS.keys) = Cardinality({declaration[i].name : i \in 1..Len(declaration)})

C11_Witness ==
    /\ pc = "registered"
    /\ declaration = SourceDeclaration
    /\ brokerCalls = <<"daily_cleanup", "hourly_health_check",
                       "weekly_report_generation", "metrics_aggregation">>
    /\ regLog[1].task_count = 4

\* C12: a second start-up against the same broker succeeds and leaves the
\* broker's table as the first one left it: the same task names, each with
\* the same function, schedule and retry labels.
C12_IdempotentUnderRestart ==
    (pc = "registered" /\ runs >= 2) =>
        /\ raised = NoError
        /\ DOMAIN broker = DictKeys(SCHEDULED_TASKS)
        /\ broker = brokerBefore

C12_Witness ==
    /\ pc = "registered"
    /\ runs = 2
    /\ declaration = SourceDeclaration
    /\ broker["weekly_report_generation"].labels.max_retries = WeeklyMaxRetries
    /\ broker = brokerBefore

\* C13: once the module is imported the registry is never written:
\* registration and every step of every firing leave the names, their order
\* and every definition of SCHEDULED_TASKS as they were.
C13_RegistryReadOnly ==
    [][(pc = "loaded" \/ pc = "registered") => SCHEDULED_TASKS' = SCHEDULED_TASKS]_vars

C13_Witness ==
    /\ pc = "registered"
    /\ declaration = SourceDeclaration
    /\ firing["weekly_report_generation"].state = "FailedTerminal"
    /\ firing["daily_cleanup"].state = "Succeeded"
    /\ SCHEDULED_TASKS.keys = [i \in 1..Len(declaration) |-> declaration[i].name]
    /\ \A i \in 1..Len(declaration) :
          SCHEDULED_TASKS.vals[declaration[i].name] = declaration[i].config

\* C14: while hourly_health_check waits on the join every probe has been
\* started and nothing has been returned; once it is over every probe has
\* completed, in whichever order, and checks holds exactly one outcome per
\* probe under the probe's name.
C14_AllLaunchedAllJoined ==
    /\ hPc = "gather" =>
          /\ \A p \in ProbeNames : probe[p].st # "not_started"
          /\ hOutcome = "none"
          /\ result = NoResult
    /\ hPc = "done" =>
          /\ \A p \in ProbeNames : ProbeDone(p)
          /\ Len(hOrder) = Cardinality(ProbeNames)
          /\ hOutcome = "returned"
          /\ DOMAIN result.checks = ProbeNames

\* The second probe of the gather completed first.
C14_Witness ==
    /\ hPc = "done"
    /\ hOrder = <<"redis", "database">>
    /\ DOMAIN result.checks = {"database", "redis"}

\* The checks of the current call with the outcomes of the probes exchanged
\* along the reversed argument order.
SwappedChecks ==
    [p \in ProbeNames |->
        LET i == CHOOSE k \in 1..Len(ProbeOrder) : ProbeOrder[k] = p
        IN result.checks[ProbeOrder[Len(ProbeOrder) + 1 - i]]]

\* C15: the folded status is symmetric in the probes: folding the outcomes
\* with the probes exchanged gives the status the call returned.
C15_OrderIndependent ==
    hPc = "done" =>
        /\ hOutcome = "returned"
        /\ HealthResult(SwappedChecks).status = result.status

C15_Witness ==
    /\ hPc = "done"
    /\ hOrder = <<"redis", "database">>
    /\ probe["database"] = Returned([status |-> "healthy"])
    /\ probe["redis"] = Raised("timeout")
    /\ result.status = "degraded"
    /\ HealthResult(SwappedChecks).status = "degraded"

CompletionRecords ==
    {i \in 1..Len(hLog) : hLog[i].msg = "Hourly health check completed"}

\* C17: a call that is over has logged exactly one completion record, at
\* info exactly when the folded status is healthy and at warning exactly
\* when it is degraded; a call in progress has logged none.
C17_OneCompletionRecord ==
    /\ hPc = "gather" => CompletionRecords = {}
    /\ hPc = "done" =>
          /\ Cardinality(CompletionRecords) = 1
          /\ \A i \in CompletionRecords :
                /\ hLog[i].level = "info" <=> result.status = "healthy"
                /\ hLog[i].level = "warning" <=> result.status = "degraded"

C17_Witness ==
    /\ hPc = "done"
    /\ probe["redis"] = Returned([status |-> "unhealthy"])
    /\ hLog[Len(hLog)].level = "warning"
    /\ result.status = "degraded"

\* C18: a step changes the firing of at most one task, so a firing that
\* fails, retries or ends FailedTerminal leaves the state, the attempt
\* counter and the outcome of every sibling's firing as they were; and a
\* task with no firing in progress can be fired again whatever state the
\* firings of its siblings ended in, as long as the scheduler still ticks.
C18_FailureContained ==
    /\ [][\A t \in TaskNames :
             firing'[t] # firing[t] =>
                 \A u \in TaskNames \ {t} : firing'[u] = firing[u]]_vars
    /\ [](\A t \in TaskNames :
             (/\ pc = "registered"
              /\ firings < MaxFirings
              /\ firing[t].state \in Terminal \cup {"Idle"}) => ENABLED Fire(t))

\* A later firing of a sibling ran to its end after a terminal failure.
C18_Witness ==
    /\ pc = "registered"
    /\ firing["weekly_report_generation"].state = "FailedTerminal"
    /\ firing["metrics_aggregation"].state = "FailedTerminal"
    /\ firing["daily_cleanup"].state = "Succeeded"
    /\ firing["daily_cleanup"].attempts = 0
    /\ firing["daily_cleanup"].executions = 1

\* C19: a firing in a terminal state has been reported exactly once: by the
\* record with the result that the unit logged when it is Succeeded, by an
\* error record carrying the task name and the error when it is
\* FailedTerminal; a firing in progress has not been reported, and no
\* exception has escaped to the host process.
C19_TerminalReportedOnce ==
    \A t \in TaskNames :
        /\ firing[t].state \in {"Pending", "Running", "Failed"} => firing[t].reports = <<>>
        /\ firing[t].state \in Terminal =>
              /\ Len(firing[t].reports) = 1
              /\ firing[t].reports[1].task = t
              /\ raised = NoError
        /\ firing[t].state = "Succeeded" =>
              /\ firing[t].reports[1].level # "error"
              /\ firing[t].reports[1].status \in {"completed", "healthy", "degraded"}
        /\ firing[t].state = "FailedTerminal" =>
              /\ firing[t].reports[1].level = "error"
              /\ firing[t].reports[1].error = firing[t].err
              /\ firing[t].err \in UnitErrors

C19_Witness ==
    /\ pc = "registered"
    /\ firing["daily_cleanup"].state = "Succeeded"
    /\ Len(firing["daily_cleanup"].reports) = 1
    /\ firing["weekly_report_generation"].state = "FailedTerminal"
    /\ firing["weekly_report_generation"].reports
          = <<[level |-> "error", task |-> "weekly_report_generation", error |-> "disk full"]>>

\* C20: the attempt counter of a firing changes only by that firing's own
\* retry (Failed to Pending, one more attempt) or by the start of the next
\* firing of the same task (back to 0); no step of another firing changes it.
C20_AttemptsScopedToFiring ==
    [][\A t \in TaskNames :
          firing'[t].attempts # firing[t].attempts =>
              \/ /\ firing'[t].no = firing[t].no
                 /\ firing[t].state = "Failed"
                 /\ firing'[t].state = "Pending"
                 /\ firing'[t].attempts = firing[t].attempts + 1
              \/ /\ firing'[t].no = firing[t].no + 1
                 /\ firing'[t].attempts = 0]_vars

\* Firings of three tasks in progress or over, one of them after two retries.
C20_Witness ==
    /\ pc = "registered"
    /\ firing["weekly_report_generation"].attempts = 2
    /\ firing["weekly_report_generation"].state = "Running"
    /\ firing["daily_cleanup"].state = "Failed"
    /\ firing["daily_cleanup"].attempts = 0
    /\ firing["metrics_aggregation"].state = "Pending"
    /\ firing["metrics_aggregation"].attempts = 0

\* The keyword arguments the registry declares for the schedule of a task.
DeclaredKwargs(t) == BoundKwargs(SCHEDULED_TASKS.vals[t].schedule[1])

\* C21: every call of a unit, the first run of a firing and every retry
\* alike, passes exactly the keyword arguments the registry binds to the
\* task's schedule, and a run of daily_cleanup or metrics_aggregation that
\* returned echoes the declared value in its result: 30 days and 15 minutes
\* for the declaration of the source.
C21_BoundArgumentsPassedVerbatim ==
    pc = "registered" =>
        \A t \in DictKeys(SCHEDULED_TASKS) :
            /\ firing[t].passed.called =>
                   firing[t].passed.kwargs = DeclaredKwargs(t)
            /\ (firing[t].last = "returned" /\ t = "daily_cleanup") =>
                   /\ firing[t].echo.older_than_days = DeclaredKwargs(t).older_than_days
                   /\ declaration = SourceDeclaration =>
                          firing[t].echo.older_than_days = 30
            /\ (firing[t].last = "returned" /\ t = "metrics_aggregation") =>
                   /\ firing[t].echo.interval_minutes = DeclaredKwargs(t).interval_minutes
                   /\ firing[t].echo.interval_minutes = 15

\* daily_cleanup, declared with arguments other than the defaults and with
\* one retry, returned on the retry of its second firing.
C21_Witness ==
    /\ pc = "registered"
    /\ DeclaredKwargs("daily_cleanup") = [older_than_days |-> 7]
    /\ firing["daily_cleanup"].no = 2
    /\ firing["daily_cleanup"].attempts = 1
    /\ firing["daily_cleanup"].last = "returned"
    /\ firing["daily_cleanup"].passed.kwargs = [older_than_days |-> 7]
    /\ firing["daily_cleanup"].echo.older_than_days = 7

\* The registered tasks whose labels switch retry on.
RetryRegistered == {t \in DOMAIN broker : broker[t].labels.retry_on_error}

\* C29: once registration is over the labels of every task carry the
\* declared retry_on_error, and carry max_retries exactly when the
\* declaration does, with the declared value; for the declaration of the
\* source weekly_report_generation is the only task registered with retry
\* on, with max_retries 2, and no other task has a max_retries label.
C29_RetryMetadataAsDeclared ==
    pc = "registered" =>
        /\ \A t \in DictKeys(SCHEDULED_TASKS) :
              LET config == SCHEDULED_TASKS.vals[t]
                  labels == broker[t].labels
              IN /\ labels.retry_on_error = config.retry_on_error
                 /\ "max_retries" \in DOMAIN labels <=> "max_retries" \in DOMAIN config
                 /\ "max_retries" \in DOMAIN config =>
                        labels.max_retries = config.max_retries
        /\ declaration = SourceDeclaration =>
              /\ RetryRegistered = {"weekly_report_generation"}
              /\ broker["weekly_report_generation"].labels.max_retries = 2
              /\ \A t \in DOMAIN broker \ RetryRegistered :
                    "max_retries" \notin DOMAIN broker[t].labels

\* The declaration of the source has been registered.
C29_Witness ==
    /\ pc = "registered"
    /\ declaration = SourceDeclaration
    /\ DOMAIN broker = TaskNames
    /\ broker["weekly_report_generation"].labels.max_retries = WeeklyMaxRetries
    /\ ~broker["daily_cleanup"].labels.retry_on_error
    /\ "max_retries" \notin DOMAIN broker["daily_cleanup"].labels

\* The retry bound in force for a task: the declared max_retries when the
\* declaration switches retry on, 0 when it does not.
RetryBound(t) ==
    IF SCHEDULED_TASKS.vals[t].retry_on_error /\ "max_retries" \in DOMAIN SCHEDULED_TASKS.vals[t]
    THEN SCHEDULED_TASKS.vals[t].max_retries
    ELSE 0

\* A firing of the task is in progress.
InProgress(t) == firing[t].state \in {"Pending", "Running", "Failed"}

\* C27: in every state of every firing 0 <= attempts <= maxRetries, with
\* attempts = 0 when retry is off, and the unit has run at most
\* maxRetries + 1 times; and when each run of the unit terminates, every
\* firing in progress reaches Succeeded or FailedTerminal.
C27_BoundedAttemptsAndTermination ==
    /\ [](pc = "registered" =>
            \A t \in DictKeys(SCHEDULED_TASKS) :
                /\ 0 <= firing[t].attempts
                /\ firing[t].attempts <= RetryBound(t)
                /\ DeclaredRetryOff(t) => firing[t].attempts = 0
                /\ firing[t].executions <= RetryBound(t) + 1)
    /\ \A t \in TaskNames : InProgress(t) ~> firing[t].state \in Terminal

\* weekly_report_generation failed for good after using up its two retries.
C27_Witness ==
    /\ pc = "registered"
    /\ declaration = SourceDeclaration
    /\ firing["weekly_report_generation"].state = "FailedTerminal"
    /\ firing["weekly_report_generation"].attempts = RetryBound("weekly_report_generation")
    /\ firing["weekly_report_generation"].executions = 3
    /\ firing["daily_cleanup"].state = "FailedTerminal"
    /\ firing["daily_cleanup"].attempts = 0

\* A probe of the current call has neither returned nor raised yet.
SomeProbePending == \E p \in ProbeNames : probe[p].st \notin {"returned", "raised"}

\* C28: hourly_health_check puts no timeout on the join: while a probe has
\* yet to complete the call has not returned, however early the other probe
\* completed; the call is over only by a step taken when every probe had
\* completed; and when every probe completes, by returning or by raising,
\* the call returns its result.
C28_NoTimeoutOnJoin ==
    /\ []((hPc = "gather" /\ SomeProbePending) =>
             (hOutcome = "none" /\ result = NoResult))
    /\ [][(hPc = "gather" /\ hPc' = "done") => ~SomeProbePending]_vars
    /\ (hPc = "gather" ~> (hPc = "done" /\ hOutcome = "returned"))

\* The call waits on the join: redis completed first, database is running.
C28_Witness ==
    /\ hPc = "gather"
    /\ hOrder = <<"redis">>
    /\ probe["database"] = Running
    /\ probe["redis"].st = "raised"
    /\ result = NoResult

\* The X-Frontend-ID headers of the request the task is waiting on.
FrontendHeaders(s) == {h \in tasks[s].headers : h[1] = "X-Frontend-ID"}

\* C22: every request handed to httpx through an APIClient carries the
\* header X-Frontend-ID with the source of that APIClient as its value,
\* whatever calls of request and close came before.
C22_FrontendHeaderIsSource ==
    \A s \in Slots :
        tasks[s].pc = "awaiting" =>
            FrontendHeaders(s) = {<<"X-Frontend-ID", apiClients[tasks[s].api].source>>}

\* C23: between two closes of the module-level client every get_api_client
\* call returns the APIClient the first of them returned, whatever source it
\* is given; the source of that APIClient, and the X-Frontend-ID header of
\* its HTTP client, is the source given to the first call.
C23_SingletonAccessor ==
    gets.last.called =>
        /\ gets.last.ret = gets.first.ret
        /\ apiClients[gets.last.ret].source = gets.first.arg
        /\ apiClients[gets.last.ret].http # 0 =>
              httpClients[apiClients[gets.last.ret].http].headers =
                 {<<"X-Frontend-ID", gets.first.arg>>}

\* get_api_client("cli"), then get_api_client("tui"): the same object, whose
\* HTTP client was built for cli.
C23_Witness ==
    /\ gets.first.called
    /\ gets.first.arg = "cli"
    /\ gets.last.arg = "tui"
    /\ gets.last.ret = gets.first.ret
    /\ apiClients[gets.last.ret].http # 0
    /\ httpClients[apiClients[gets.last.ret].http].headers = {<<"X-Frontend-ID", "cli">>}

\* C24: before the first call into the module there is neither an engine
\* nor a session factory; at most one engine and one session factory are
\* ever created; a get_engine or get_session_factory call that returns
\* returns the one stored object; and the session factory is bound to the
\* stored engine.
C24_LazySingletons ==
    /\ ~dbCalled =>
          (engine = 0 /\ sessionFactory = NoFactory /\ created = [engines |-> 0, factories |-> 0])
    /\ created.engines <= 1
    /\ created.factories <= 1
    /\ sessionFactory.made => (engine # 0 /\ sessionFactory.bind = engine)
    /\ (dbReturned.fn = "get_engine" /\ dbReturned.ok) =>
          (engine # 0 /\ dbReturned.value = engine)
    /\ (dbReturned.fn = "get_session_factory" /\ dbReturned.ok) =>
          (sessionFactory.made /\ dbReturned.value = sessionFactory)
    /\ session # NoSession => session.factory = sessionFactory

\* get_engine returned the engine that a session, opened before, had made
\* the module create together with the factory.
C24_Witness ==
    /\ dbReturned.fn = "get_engine"
    /\ dbReturned.ok
    /\ dbReturned.value = 1
    /\ created = [engines |-> 1, factories |-> 1]
    /\ sessionFactory.made
    /\ sessionFactory.bind = 1
    /\ session # NoSession
    /\ session.pc = "yielded"

Called(method) == \E i \in 1..Len(session.calls) : session.calls[i] = method

\* What was raised inside the try block: by the consumer, or by commit.
RaisedInTry ==
    IF session.consumer # NoException THEN session.consumer ELSE session.commit

\* C30 as stated: commit is attempted exactly when the consumer finished
\* without raising; when the consumer or the commit raised, rollback was
\* called and the same exception reached the caller; a session whose
\* consumer raised is not committed; and the session is closed.
C30_RollbackAndSameException ==
    session.pc = "closed" =>
        /\ Called("commit") <=> session.consumer = NoException
        /\ RaisedInTry # NoException =>
              (Called("rollback") /\ session.propagated = RaisedInTry)
        /\ session.consumer # NoException => ~Called("commit")
        /\ Called("close")

\* C30, amended: commit is attempted exactly when the consumer finished
\* without raising and never after the consumer raised; an Exception raised
\* by the consumer or by commit is followed by a rollback and reaches the
\* caller unless rollback itself raised, and then the exception of rollback
\* does; an exception that is not an Exception (a cancellation) reaches the
\* caller with no rollback call; the session is closed, once and last.
C30_SessionExitPaths ==
    session.pc = "closed" =>
        /\ Called("commit") <=> session.consumer = NoException
        /\ session.consumer # NoException => ~Called("commit")
        /\ RaisedInTry = NoException =>
              (session.calls = <<"commit", "close">> /\ session.propagated = NoException)
        /\ RaisedInTry # NoException =>
              IF RaisedInTry.isException
              THEN /\ Called("rollback")
                   /\ session.propagated =
                         IF session.rollback = NoException THEN RaisedInTry
                         ELSE session.rollback
              ELSE /\ ~Called("rollback")
                   /\ session.propagated = RaisedInTry
        /\ session.calls[Len(session.calls)] = "close"
        /\ \A i \in 1..(Len(session.calls) - 1) : session.calls[i] # "close"

\* The commit failed, the rollback went through, the error of the commit
\* reached the caller and the session is closed.
C30_Witness ==
    /\ session # NoSession
    /\ session.pc = "closed"
    /\ session.calls = <<"commit", "rollback", "close">>
    /\ session.commit.type = "IntegrityError"
    /\ session.propagated = session.commit

\* The open HTTP clients that APIClient c has created.
OpenHttpClients(c) ==
    {h \in 1..Len(httpClients) : httpClients[h].owner = c /\ ~httpClients[h].is_closed}

\* C31: in sequential use every APIClient has at most one open HTTP client
\* at any time, and a request gets an open HTTP client that the APIClient
\* then references: the one it referenced before when that one is open, and
\* a newly created one exactly when it referenced none or a closed one, as
\* it does after close().
C31_OneOpenHttpClient ==
    [][/\ \A c \in 1..Len(apiClients') : Cardinality(OpenHttpClients(c)') <= 1
       /\ \A s \in Slots :
             (tasks'[s].pc = "awaiting" /\ tasks[s].pc # "awaiting") =>
                LET c == tasks'[s].api
                    h == tasks'[s].http
                IN /\ ~httpClients'[h].is_closed
                   /\ httpClients'[h].owner = c
                   /\ apiClients'[c].http = h
                   /\ IF apiClients[c].http # 0 /\ ~httpClients[apiClients[c].http].is_closed
                      THEN h = apiClients[c].http /\ httpClients' = httpClients
                      ELSE h = Len(httpClients) + 1 /\ Len(httpClients') = h]_vars

\* A request made after close() has completed waits on a second HTTP client
\* of the same APIClient, the first being closed.
C31_Witness ==
    /\ tasks[1].pc = "awaiting"
    /\ tasks[1].http = 2
    /\ httpClients[1].owner = tasks[1].api
    /\ httpClients[1].is_closed
    /\ httpClients[1].acloses = 1
    /\ OpenHttpClients(tasks[1].api) = {2}

\* C32: under every interleaving of request and close calls of two tasks on
\* one APIClient, every HTTP client that is still open is the one its
\* APIClient references, so that a later close() closes it.
C32_NoOrphanedHttpClient ==
    \A h \in 1..Len(httpClients) :
        ~httpClients[h].is_closed => apiClients[httpClients[h].owner].http = h

\* The record of a close or close_api_client call that returned without
\* awaiting: there was no open HTTP client to close.
ClosedNothing(task) ==
    /\ task.op \in {"close", "close_api_client"}
    /\ task.pc = "returned"
    /\ ~task.awaited

\* C33: close, and close_api_client, on an APIClient that has no open HTTP
\* client (it never made a request, or it has been closed before) returns
\* without raising and leaves every HTTP client and every reference to one
\* as it was, close_api_client leaving the module-level reference cleared;
\* only a call suspended in aclose can raise, and aclose is called at most
\* once on any HTTP client.
C33_CloseIdempotent ==
    [][/\ \A h \in 1..Len(httpClients') : httpClients'[h].acloses <= 1
       /\ \A s \in Slots :
             /\ (/\ tasks'[s] # tasks[s]
                 /\ tasks'[s].op \in {"close", "close_api_client"}
                 /\ tasks'[s].pc = "raised") => tasks[s].pc = "aclose"
             /\ (tasks'[s] # tasks[s] /\ ClosedNothing(tasks'[s])) =>
                   /\ httpClients' = httpClients
                   /\ Len(apiClients') = Len(apiClients)
                   /\ \A c \in 1..Len(apiClients) :
                         apiClients'[c].http = apiClients[c].http
                   /\ IF tasks'[s].op = "close"
                      THEN moduleClient' = moduleClient
                      ELSE moduleClient' = 0]_vars

\* close() has been called again on an APIClient whose one HTTP client an
\* earlier close() had closed: that client was closed once.
C33_Witness ==
    /\ ClosedNothing(tasks[1])
    /\ tasks[1].op = "close"
    /\ Len(apiClients) = 1
    /\ apiClients[1].http = 0
    /\ Len(httpClients) = 1
    /\ httpClients[1].is_closed
    /\ httpClients[1].acloses = 1

\* The request of task s has ended.
RequestEnded(s) == tasks[s].op = "request" /\ tasks[s].pc \in {"returned", "raised"}

\* The log of the request of task s ends with 'API response' and the status
\* code of the response that was returned.
LoggedResponse(s) ==
    /\ Len(tasks[s].log) = 2
    /\ tasks[s].pc = "returned"
    /\ tasks[s].log[2].message = "API response"
    /\ tasks[s].log[2].status_code = tasks[s].response

\* The log of the request of task s ends with an error-severity 'API request
\* failed' that names the exception that was raised.
LoggedFailure(s) ==
    /\ Len(tasks[s].log) = 2
    /\ tasks[s].pc = "raised"
    /\ tasks[s].log[2].message = "API request failed"
    /\ tasks[s].log[2].level = "error"
    /\ tasks[s].log[2].error = tasks[s].error

\* C34 as stated: every request logs 'API request' before it is sent and,
\* once it has ended, exactly one record more: 'API response' with the
\* status code when the response is returned, 'API request failed' when an
\* exception is raised.
C34_RequestLogsOneOutcome ==
    \A s \in Slots :
        tasks[s].op = "request" =>
            /\ tasks[s].log[1] = ApiRequestRecord
            /\ tasks[s].pc = "awaiting" => Len(tasks[s].log) = 1
            /\ RequestEnded(s) => (LoggedResponse(s) \/ LoggedFailure(s))

\* The exceptions of client.request that are httpx.HTTPErrors.
HTTPErrorTypes == {e.type : e \in {x \in RequestErrors : x.isHTTPError}}

\* C34, amended: every request logs 'API request' before it is sent. When
\* the response is returned, 'API response' with its status code is the one
\* record that follows; when an httpx.HTTPError is raised, 'API request
\* failed' is the one record that follows and the same error leaves the
\* call; when any other exception is raised, nothing more is logged and the
\* exception leaves the call. A request that raised returned no response.
C34_RequestLogsByOutcome ==
    \A s \in Slots :
        tasks[s].op = "request" =>
            /\ tasks[s].log[1] = ApiRequestRecord
            /\ tasks[s].pc = "awaiting" => Len(tasks[s].log) = 1
            /\ tasks[s].pc = "returned" => LoggedResponse(s)
            /\ tasks[s].pc = "raised" =>
                  /\ tasks[s].error \in {e.type : e \in RequestErrors}
                  /\ IF tasks[s].error \in HTTPErrorTypes
                     THEN LoggedFailure(s)
                     ELSE Len(tasks[s].log) = 1

\* A request ended with a ConnectError, logged as a failure.
C34_Witness ==
    /\ tasks[1].op = "request"
    /\ tasks[1].pc = "raised"
    /\ tasks[1].error = "ConnectError"
    /\ LoggedFailure(1)

\* The APIClients obtained from get_api_client on which no close has
\* completed.
LiveApiClients == {c \in 1..Len(apiClients) : ~apiClients[c].closed}

\* C35: under every interleaving of get_api_client and close_api_client
\* calls at most one APIClient obtained from get_api_client is live, and
\* once a close_api_client call has completed the module-level reference is
\* cleared until the next get_api_client call, which so creates an APIClient.
C35_AtMostOneLiveApiClient ==
    /\ Cardinality(LiveApiClients) <= 1
    /\ \A s \in Slots :
          (/\ tasks[s].op = "close_api_client"
           /\ tasks[s].pc = "returned"
           /\ ~gets.last.called) => moduleClient = 0

\* The messages of the history that belong to submission w and have the
\* given role.
MessagesOf(w, role) ==
    {i \in 1..Len(messages) : messages[i].of = w /\ messages[i].role = role}

\* The error lines of submission w that the chat log shows.
ErrorLines(w) ==
    {i \in 1..Len(chatLog) :
        chatLog[i].of = w /\ chatLog[i].kind \in {"agent_error", "unreachable", "error"}}

\* The request of submission w has been sent.
Sent(w) == workers[w].pc \in {"awaiting", "done"}

\* No new-chat action has emptied the history and the chat log since the
\* request of submission w was sent.
SameChat(w) == Sent(w) /\ workers[w].chat = chats

\* C36 as stated: the user's message is in the history once the request is
\* sent; an assistant message is in the history only after a response with
\* status 200; and after a response with another status, or an exception,
\* there is no assistant message, an error line is shown and no exception
\* has left the handler.
C36_ChatSubmissionOutcomes ==
    \A w \in 1..Len(workers) :
        /\ SameChat(w) => MessagesOf(w, "user") # {}
        /\ MessagesOf(w, "assistant") # {} =>
              (workers[w].pc = "done" /\ workers[w].status_code = 200)
        /\ (workers[w].pc = "done" /\ workers[w].status_code # 200) =>
              /\ MessagesOf(w, "assistant") = {}
              /\ SameChat(w) => ErrorLines(w) # {}
              /\ workers[w].outcome = "returned"

\* C36, amended: as stated for a response with a status other than 200, a
\* connection error and every other Exception; when the worker is cancelled
\* while it waits for the response, the history gets no assistant message,
\* no error line is shown and the CancelledError leaves the handler.
C36_ChatSubmissionOutcomesByException ==
    \A w \in 1..Len(workers) :
        /\ SameChat(w) => MessagesOf(w, "user") # {}
        /\ MessagesOf(w, "assistant") # {} =>
              (workers[w].pc = "done" /\ workers[w].status_code = 200)
        /\ (workers[w].pc = "done" /\ workers[w].status_code # 200) =>
              /\ MessagesOf(w, "assistant") = {}
              /\ IF workers[w].error = "CancelledError"
                 THEN ErrorLines(w) = {} /\ workers[w].outcome = "raised"
                 ELSE /\ SameChat(w) => ErrorLines(w) # {}
                      /\ workers[w].outcome = "returned"

\* The backend was not reachable: the user's message is the whole history
\* and the chat log ends with the line that says so.
C36_Witness ==
    /\ Len(workers) = 1
    /\ workers[1].pc = "done"
    /\ workers[1].error = "ConnectError"
    /\ workers[1].outcome = "returned"
    /\ Len(messages) = 1
    /\ messages[1].role = "user"
    /\ chatLog[Len(chatLog)] = Line("unreachable", 1)

\* C37: the history holds only messages of the current chat session, also
\* when a new chat was started while a request was in flight, and every
\* assistant message in it comes after the user message it answers.
C37_HistoryOfCurrentChat ==
    \A i \in 1..Len(messages) :
        /\ messages[i].chat = chats
        /\ messages[i].role = "assistant" =>
              \E j \in 1..(i - 1) :
                 messages[j].role = "user" /\ messages[j].of = messages[i].of

\* A kill-plan action is the step that adds its line to the chat log.
KillStep == chatLog' = Append(chatLog, KillLine)

\* C38: plans_running is never negative, and a kill-plan action takes one
\* from it unless it is 0, which it leaves.
C38_PlansRunningNotNegative ==
    [][/\ plans_running >= 0
       /\ plans_running' >= 0
       /\ KillStep =>
             plans_running' = IF plans_running = 0 THEN 0 ELSE plans_running - 1]_vars

\* Kill-plan actions have brought the counter from its largest starting
\* value down to 0 and one more has left it there.
C38_Witness ==
    /\ plans_running = 0
    /\ Len(chatLog) > MaxPlans + 1
    /\ \A i \in 2..Len(chatLog) : chatLog[i] = KillLine

(***************************************************************************)
(* Specifications                                                          *)
(***************************************************************************)

RegistryNext ==
    \/ Declare
    \/ Loaded
    \/ RegisterScheduledTasks

FiringNext ==
    \/ \E t \in TaskNames : Fire(t)
    \/ \E t \in TaskNames : Execute(t)
    \/ \E t \in TaskNames : UnitReturns(t)
    \/ \E t \in TaskNames, msg \in UnitErrors : UnitRaises(t, msg)
    \/ \E t \in TaskNames : Retry(t)
    \/ \E t \in TaskNames : Abandon(t)

\* The health aggregator on its own.
Init ==
    /\ HealthInit
    /\ RegistryInit({SourceDeclaration})
    /\ FiringInit
    /\ ClientInit
    /\ DatabaseInit
    /\ LoggingInit({PlainRecord})
    /\ TuiInit({0})

Next == HealthNext

Spec == Init /\ [][Next]_vars

\* A probe completes, one way or the other.
ProbeCompletes(p) ==
    \/ \E payload \in ProbePayloads : ProbeReturn(p, payload)
    \/ \E msg \in ProbeErrors : ProbeRaise(p, msg)

\* The health aggregator when every probe it started completes and the
\* event loop resumes the task that waits on the join.
SpecHealthFair ==
    /\ Init
    /\ [][Next]_vars
    /\ \A p \in ProbeNames : WF_vars(ProbeCompletes(p))
    /\ WF_vars(HealthJoin)

\* The command-line client in sequential use: one task calls
\* get_api_client, with every source, request, close and close_api_client,
\* awaiting each call before the next; get_api_client, which does not
\* suspend, is also called while a call is suspended.
InitClient ==
    /\ HealthInit
    /\ RegistryInit({SourceDeclaration})
    /\ FiringInit
    /\ ClientInit
    /\ DatabaseInit
    /\ LoggingInit({PlainRecord})
    /\ TuiInit({0})

SpecClient == InitClient /\ [][ClientNext({1}, Sources, RequestHeaders)]_vars

\* The command-line client in concurrent use: two tasks call into the
\* client, a call of one beginning while the other is suspended in its own;
\* the default source, and requests without headers of the caller.
SpecClientConcurrent == InitClient /\ [][ClientNext(Slots, {DefaultSource}, {{}})]_vars

\* The database module: the accessors and one get_db_session at a time.
SpecDatabase == InitClient /\ [][DatabaseNext]_vars

\* The routing handler over every record.
InitLogging ==
    /\ HealthInit
    /\ RegistryInit({SourceDeclaration})
    /\ FiringInit
    /\ ClientInit
    /\ DatabaseInit
    /\ LoggingInit(LogRecords)
    /\ TuiInit({0})

SpecLogging == InitLogging /\ [][LoggingNext]_vars

\* Start-up over every declaration: import of the module, then registration.
InitRegistration ==
    /\ HealthInit
    /\ RegistryInit({SourceDeclaration} \cup RetryDeclarations
                    \cup MalformedDeclarations \cup DuplicateDeclarations)
    /\ FiringInit
    /\ ClientInit
    /\ DatabaseInit
    /\ LoggingInit({PlainRecord})
    /\ TuiInit({0})

NextRegistration == RegistryNext \/ Restart

SpecRegistration == InitRegistration /\ [][NextRegistration]_vars

\* Start-up followed by the firings of the registered tasks.
InitFiring ==
    /\ HealthInit
    /\ RegistryInit({SourceDeclaration} \cup RetryDeclarations \cup KwargsDeclarations)
    /\ FiringInit
    /\ ClientInit
    /\ DatabaseInit
    /\ LoggingInit({PlainRecord})
    /\ TuiInit({0})

NextFiring == RegistryNext \/ FiringNext

SpecFiring == InitFiring /\ [][NextFiring]_vars

\* The steps of the firing of one task once it has been triggered.
FiringStep(t) ==
    \/ Execute(t)
    \/ UnitReturns(t)
    \/ \E msg \in UnitErrors : UnitRaises(t, msg)
    \/ Retry(t)
    \/ Abandon(t)

\* The firings under the assumptions of the termination claim: every run of
\* a unit terminates (it returns or raises), and the runtime keeps
\* delivering what is pending and settling what has failed.
InitFiringFair ==
    /\ HealthInit
    /\ RegistryInit({SourceDeclaration})
    /\ FiringInit
    /\ ClientInit
    /\ DatabaseInit
    /\ LoggingInit({PlainRecord})
    /\ TuiInit({0})

SpecFiringFair ==
    /\ InitFiringFair
    /\ [][NextFiring]_vars
    /\ \A t \in TaskNames : WF_vars(FiringStep(t))

\* The terminal interface: chat submissions, their workers, new-chat and
\* kill-plan actions, from every starting value of plans_running.
InitTui ==
    /\ HealthInit
    /\ RegistryInit({SourceDeclaration})
    /\ FiringInit
    /\ ClientInit
    /\ DatabaseInit
    /\ LoggingInit({PlainRecord})
    /\ TuiInit(0..MaxPlans)

SpecTui == InitTui /\ [][TuiNext]_vars

====
